---- MODULE Spec2Model ----
(***************************************************************************)
(* A model of the dpos consensus engine of goola                           *)
(* (src/consensus/dpos/consensus.go): the header rules (verifyHeader,      *)
(* VerifySeal, VerifyHeader, verifyHeaderWorker), the concurrent batch      *)
(* verifier VerifyHeaders (workers, sequencer, channels) and Finalize.      *)
(*                                                                         *)
(* Units and encodings.                                                    *)
(*  - uint64 values (GasLimit, GasUsed) are four 16-bit limbs, most        *)
(*    significant first, so that the 64-bit wrap of the int64 arithmetic    *)
(*    of verifyHeader is computed as the machine computes it.               *)
(*  - Header.Extra is modelled by its length, the only thing the code       *)
(*    reads.                                                                *)
(*  - Hash() is the header's serialisation (a collision-free hash).         *)
(*  - wei amounts are in units of 10^18 wei (big.Int never overflows).      *)
(***************************************************************************)
EXTENDS Integers, Naturals, Sequences, FiniteSets, TLC

\* ----------------------------------------------------------------- bounds

\* Longest batch handed to VerifyHeaders.
MaxN == 3

\* Largest runtime.GOMAXPROCS(0).
MaxProcs == 2

\* Largest peer count of the p2p server and of the light-serving config.
MaxPeerCount == 3

\* Most requests handed to the RequestDistributor.
MaxReq == 3

\* Largest retry budget of a retrieval.
MaxBudget == 2

\* Longest canonical chain a chain indexer follows.
MaxHead == 5

\* ------------------------------------------------------ protocol constants

\* params.MaximumExtraDataSize
MaximumExtraDataSize == 32

\* params.GasLimitBoundDivisor
GasLimitBoundDivisor == 1024

\* params.MinGasLimit
MinGasLimit == 5000

\* allowedFutureBlockTime, in seconds
allowedFutureBlockTime == 15

\* FrontierBlockReward, in 10^18 wei
FrontierBlockReward == 5

\* ByzantiumBlockReward, in 10^18 wei
ByzantiumBlockReward == 3

\* ------------------------------------------------------- uint64 arithmetic

Limb == 2^16

U64(a, b, c, d) == <<a, b, c, d>>

U64Small(n) == <<0, 0, n \div Limb, n % Limb>>

U64Zero == <<0, 0, 0, 0>>

\* x < y as unsigned 64-bit numbers
U64Lt(x, y) ==
    \/ x[1] < y[1]
    \/ x[1] = y[1] /\ x[2] < y[2]
    \/ x[1] = y[1] /\ x[2] = y[2] /\ x[3] < y[3]
    \/ x[1] = y[1] /\ x[2] = y[2] /\ x[3] = y[3] /\ x[4] < y[4]

U64Gt(x, y) == U64Lt(y, x)

U64Ge(x, y) == ~U64Lt(x, y)

\* x - y modulo 2^64: the bits of the int64 (or uint64) subtraction
U64Sub(x, y) ==
    LET d4 == x[4] - y[4]
        b4 == IF d4 < 0 THEN 1 ELSE 0
        d3 == x[3] - y[3] - b4
        b3 == IF d3 < 0 THEN 1 ELSE 0
        d2 == x[2] - y[2] - b3
        b2 == IF d2 < 0 THEN 1 ELSE 0
        d1 == x[1] - y[1] - b2
        b1 == IF d1 < 0 THEN 1 ELSE 0
    IN  <<d1 + b1 * Limb, d2 + b2 * Limb, d3 + b3 * Limb, d4 + b4 * Limb>>

\* the sign bit of the int64 with these bits
Int64Negative(x) == x[1] >= Limb \div 2

\* x / k for a small k (k * 2^16 fits a machine word of the checker)
U64DivSmall(x, k) ==
    LET c1 == x[1]
        c2 == (c1 % k) * Limb + x[2]
        c3 == (c2 % k) * Limb + x[3]
        c4 == (c3 % k) * Limb + x[4]
    IN  <<c1 \div k, c2 \div k, c3 \div k, c4 \div k>>

\* |x - y| of the two numbers, without any wrap
U64AbsDiff(x, y) == IF U64Lt(x, y) THEN U64Sub(y, x) ELSE U64Sub(x, y)

\* cap := uint64(0x7fffffffffffffff)
GasCap == U64(32767, 65535, 65535, 65535)

\* ----------------------------------------------------------------- headers

Hdr(parentHash, coinbase, number, time, gasLimit, gasUsed, extra) ==
    [ParentHash |-> parentHash, Coinbase |-> coinbase, Number |-> number,
     Time |-> time, GasLimit |-> gasLimit, GasUsed |-> gasUsed, Extra |-> extra]

\* header.Hash(): a collision-free digest of every field
Hash(h) ==
    <<h.Coinbase, h.Number, h.Time, h.Extra>> \o h.GasLimit \o h.GasUsed \o h.ParentHash

\* header.Number.Uint64() - 1; block 0 wraps to 2^64-1, which is written -1
\* here: no header of a chain carries that number.
PrevNumber(number) == number - 1

\* chain.GetHeader(hash, number) != nil
HasHeader(chain, hash, number) ==
    \E h \in chain : Hash(h) = hash /\ h.Number = number

\* chain.GetHeader(hash, number), when there is one
GetHeader(chain, hash, number) ==
    CHOOSE h \in chain : Hash(h) = hash /\ h.Number = number

\* ------------------------------------------------------------ header rules

\* VerifySeal: the fake seal fails for exactly one block number
VerifySeal(fakeFail, header) ==
    IF fakeFail = header.Number THEN "errInvalidPoW" ELSE "nil"

\* diff := int64(parent.GasLimit) - int64(header.GasLimit); if diff < 0 { diff *= -1 }
\* and then uint64(diff)
GasDiff(header, parent) ==
    LET diff == U64Sub(parent.GasLimit, header.GasLimit)
    IN  IF Int64Negative(diff) THEN U64Sub(U64Zero, diff) ELSE diff

\* limit := parent.GasLimit / params.GasLimitBoundDivisor
GasLimitOf(parent) == U64DivSmall(parent.GasLimit, GasLimitBoundDivisor)

\* (variant) the gas limit may move by exactly the limit
verifyHeaderDeltaInclusive(fakeFail, now, header, parent, seal) ==
    IF header.Extra > MaximumExtraDataSize THEN "extra-data too long"
    ELSE IF header.Time > now + allowedFutureBlockTime THEN "ErrFutureBlock"
    ELSE IF header.Time <= parent.Time THEN "errZeroBlockTime"
    ELSE IF U64Gt(header.GasLimit, GasCap) THEN "invalid gasLimit"
    ELSE IF U64Gt(header.GasUsed, header.GasLimit) THEN "invalid gasUsed"
    ELSE IF \/ U64Gt(GasDiff(header, parent), GasLimitOf(parent))
            \/ U64Lt(header.GasLimit, U64Small(MinGasLimit))
         THEN "invalid gas limit"
    ELSE IF header.Number - parent.Number # 1 THEN "ErrInvalidNumber"
    ELSE IF seal THEN VerifySeal(fakeFail, header)
    ELSE "nil"

\* (variant) the parent's timestamp is compared before the clock
verifyHeaderParentTimeFirst(fakeFail, now, header, parent, seal) ==
    IF header.Extra > MaximumExtraDataSize THEN "extra-data too long"
    ELSE IF header.Time <= parent.Time THEN "errZeroBlockTime"
    ELSE IF header.Time > now + allowedFutureBlockTime THEN "ErrFutureBlock"
    ELSE IF U64Gt(header.GasLimit, GasCap) THEN "invalid gasLimit"
    ELSE IF U64Gt(header.GasUsed, header.GasLimit) THEN "invalid gasUsed"
    ELSE IF \/ U64Ge(GasDiff(header, parent), GasLimitOf(parent))
            \/ U64Lt(header.GasLimit, U64Small(MinGasLimit))
         THEN "invalid gas limit"
    ELSE IF header.Number - parent.Number # 1 THEN "ErrInvalidNumber"
    ELSE IF seal THEN VerifySeal(fakeFail, header)
    ELSE "nil"

\* (variant) the seal is verified whether or not it was asked for
verifyHeaderSealAlways(fakeFail, now, header, parent, seal) ==
    IF header.Extra > MaximumExtraDataSize THEN "extra-data too long"
    ELSE IF header.Time > now + allowedFutureBlockTime THEN "ErrFutureBlock"
    ELSE IF header.Time <= parent.Time THEN "errZeroBlockTime"
    ELSE IF U64Gt(header.GasLimit, GasCap) THEN "invalid gasLimit"
    ELSE IF U64Gt(header.GasUsed, header.GasLimit) THEN "invalid gasUsed"
    ELSE IF \/ U64Ge(GasDiff(header, parent), GasLimitOf(parent))
            \/ U64Lt(header.GasLimit, U64Small(MinGasLimit))
         THEN "invalid gas limit"
    ELSE IF header.Number - parent.Number # 1 THEN "ErrInvalidNumber"
    ELSE VerifySeal(fakeFail, header)

verifyHeader(fakeFail, now, header, parent, seal) ==
    IF header.Extra > MaximumExtraDataSize THEN "extra-data too long"
    ELSE IF header.Time > now + allowedFutureBlockTime THEN "ErrFutureBlock"
    ELSE IF header.Time <= parent.Time THEN "errZeroBlockTime"
    ELSE IF U64Gt(header.GasLimit, GasCap) THEN "invalid gasLimit"
    ELSE IF U64Gt(header.GasUsed, header.GasLimit) THEN "invalid gasUsed"
    ELSE IF \/ U64Ge(GasDiff(header, parent), GasLimitOf(parent))
            \/ U64Lt(header.GasLimit, U64Small(MinGasLimit))
         THEN "invalid gas limit"
    ELSE IF header.Number - parent.Number # 1 THEN "ErrInvalidNumber"
    ELSE IF seal THEN VerifySeal(fakeFail, header)
    ELSE "nil"

\* The outcome of a verification: the error, and whether verifyHeader ran.
Outcome(err, checked) == [err |-> err, checked |-> checked]

\* (variant) the parent is looked up before the header itself
VerifyHeaderParentFirst(chain, fakeFail, now, header, seal) ==
    IF ~HasHeader(chain, header.ParentHash, PrevNumber(header.Number))
    THEN Outcome("ErrUnknownAncestor", FALSE)
    ELSE IF HasHeader(chain, Hash(header), header.Number) THEN Outcome("nil", FALSE)
    ELSE Outcome(verifyHeader(fakeFail, now, header,
                     GetHeader(chain, header.ParentHash, PrevNumber(header.Number)),
                     seal), TRUE)

VerifyHeader(chain, fakeFail, now, header, seal) ==
    IF HasHeader(chain, Hash(header), header.Number) THEN Outcome("nil", FALSE)
    ELSE IF ~HasHeader(chain, header.ParentHash, PrevNumber(header.Number))
         THEN Outcome("ErrUnknownAncestor", FALSE)
    ELSE Outcome(verifyHeader(fakeFail, now, header,
                     GetHeader(chain, header.ParentHash, PrevNumber(header.Number)),
                     seal), TRUE)

\* (variant) the parent is looked up at the header's own number
PrepareSameNumber(chain, header) ==
    IF ~HasHeader(chain, header.ParentHash, header.Number)
    THEN "ErrUnknownAncestor"
    ELSE "nil"

\* parent := chain.GetHeader(header.ParentHash, header.Number.Uint64()-1)
\* if parent == nil { return consensus.ErrUnknownAncestor }; return nil
Prepare(chain, header) ==
    IF ~HasHeader(chain, header.ParentHash, PrevNumber(header.Number))
    THEN "ErrUnknownAncestor"
    ELSE "nil"

\* (variant) every position looks its parent up in the chain
verifyHeaderWorkerChainOnly(chain, fakeFail, now, headers, seals, index) ==
    LET h == headers[index + 1]
    IN  IF ~HasHeader(chain, h.ParentHash, PrevNumber(h.Number))
        THEN Outcome("ErrUnknownAncestor", FALSE)
        ELSE IF HasHeader(chain, Hash(h), h.Number) THEN Outcome("nil", FALSE)
        ELSE Outcome(verifyHeader(fakeFail, now, h,
                         GetHeader(chain, h.ParentHash, PrevNumber(h.Number)),
                         seals[index + 1]), TRUE)

\* index is the Go index, 0-based; headers and seals are 1-based sequences
verifyHeaderWorker(chain, fakeFail, now, headers, seals, index) ==
    LET h == headers[index + 1]
        found == IF index = 0
                 THEN HasHeader(chain, h.ParentHash, PrevNumber(h.Number))
                 ELSE Hash(headers[index]) = h.ParentHash
        parent == IF index = 0
                  THEN GetHeader(chain, h.ParentHash, PrevNumber(h.Number))
                  ELSE headers[index]
    IN  IF ~found THEN Outcome("ErrUnknownAncestor", FALSE)
        ELSE IF HasHeader(chain, Hash(h), h.Number) THEN Outcome("nil", FALSE)
        ELSE Outcome(verifyHeader(fakeFail, now, h, parent, seals[index + 1]), TRUE)

\* ------------------------------------------------------------------- state

VARIABLES
    chain,          \* the headers the chain reader knows
    fakeFail,       \* ethash.fakeFail
    now,            \* time.Now().Unix()
    headers,        \* the batch (a single header in the one-header operations)
    seals,          \* the seal flags, one per header
    procs,          \* runtime.GOMAXPROCS(0)
    callPc,         \* the caller of VerifyHeaders: "idle", then "returned"
    workers,        \* number of worker goroutines spawned
    idle,           \* how many workers wait in "range inputs"
    verifying,      \* the indices whose worker is in verifyHeaderWorker
    sending,        \* the indices whose worker is at "done <- index"
    exited,         \* how many workers have returned
    done,           \* the buffered channel done
    errors,         \* the shared result slots
    inputsClosed,   \* close(inputs) has run
    seqPc,          \* the sequencer goroutine: "none", "select", "blocked", "exit"
    in,             \* sequencer local
    out,            \* sequencer local
    checked,        \* sequencer local
    inputsNil,      \* the sequencer's shadowed inputs is nil
    errorsOut,      \* every value sent on the results channel, in order
    aborted,        \* the caller has closed abort
    abortSeen,      \* the sequencer's select has taken the abort case
    par,            \* the parent handed to verifyHeader
    hop,            \* the one-header operation that ran, "none" before
    hres,           \* its outcome
    config,         \* config.ByzantiumBlock: {} when nil, else {block number}
    frontierReward, \* the package variable FrontierBlockReward
    byzantiumReward,\* the package variable ByzantiumBlockReward
    stateDB,        \* the balance of every account
    stateDB0,       \* the balances when Finalize was called
    headerRoot,     \* header.Root
    block,          \* the block Finalize returns
    finPc,          \* Finalize: "start", "rewarded", "rooted", "assembled"
    syncMode,       \* config.SyncMode
    envErr,         \* the step of New whose callee returns an error, or "none"
    newPc,          \* goolabackend.New: the last step that ran, "failed", "done"
    newErr,         \* the error New returns
    dbOpened,       \* the chain database has been opened
    created,        \* the components New has created
    lightServ,      \* config.LightServ
    lightPeers,     \* config.LightPeers
    maxPeers,       \* srvr.MaxPeers
    lesServer,      \* fullGoola.lesServer != nil
    startPc,        \* FullGoola.Start: "idle", then "returned"
    startErr,       \* the error Start returns
    started,        \* what Start has started
    pmMaxPeers,     \* the argument of protocolManager.Start, {} before
    distPeers,      \* RequestDistributor: the registered peers
    outstanding,    \* the outstanding-request count of every peer
    reqs,           \* every request: its state and the peer assigned to it
    parked,         \* the parked requests, oldest first
    need,           \* the block every request requires of a peer's head
    distQuit,       \* the shutdown signal has fired
    peerKind,       \* RetrieveManager: how every peer answers
    budget,         \* the retry budget K of the request
    retrSt,         \* the state of the retrieval
    attempts,       \* the send attempts made so far
    retrPeer,       \* the peer of the attempt in flight, 0 when none
    excluded,       \* the peers excluded from the remaining retries
    retrValue,      \* the value returned to the caller, "none" before
    retrErr,        \* the error returned to the caller, "nil" before
    canon,          \* ChainIndexer: the canonical chain, one fork mark per block
    storedSections, \* the number of the next section to seal
    sealLog,        \* the sealed sections, in the order they were sealed
    progress,       \* the blocks accumulated for the section in progress
    etherbase,      \* fullGoola.etherbase, 0 for the zero address
    wallets,        \* AccountManager().Wallets(): the accounts of every wallet
    engineClique,   \* fullGoola.engine is a *clique.Clique
    local,          \* the argument of StartMining
    setPc,          \* every SetEtherbase caller: "idle", "stored", "done"
    setArg,         \* the address every SetEtherbase caller passes
    minerEtherbase, \* the address last given to miner.SetEtherbase, 0 before
    gPc,            \* every Goolase caller: "idle", "read", "found", "returned"
    gSeen,          \* the etherbase the caller read under the read lock
    gAcct,          \* the account the caller read from the wallets
    gRet,           \* what the Goolase call that returned last has returned
    smPc,           \* StartMining: "idle", "goolase", "resolved", "authorized",
                    \* "accepted", "returned", "failed"
    smEb,           \* StartMining's eb, err
    smErr,          \* the error StartMining returns
    acceptTxs,      \* protocolManager.acceptTxs
    minerSpawned,   \* the argument of "go miner.Start(eb)", {} before
    minerStarted,   \* the miner goroutine has begun with this address, {} before
    nodeKind,       \* "full" (FullGoola) or "light" (LightGoola)
    lightPc,        \* the light service: "start", "created", "failed", "started"
    stopDbUpgrade,  \* fullGoola.stopDbUpgrade != nil
    stopPc,         \* Stop: 0 before the call, then the statement to run next
    stopLog         \* what Stop has stopped or closed, in order

inputVars == <<chain, fakeFail, now, headers, seals, procs>>

vhVars == <<callPc, workers, idle, verifying, sending, exited, done, errors,
            inputsClosed, seqPc, in, out, checked, inputsNil, errorsOut, aborted,
            abortSeen>>

hdrVars == <<par, hop, hres>>

finVars == <<config, frontierReward, byzantiumReward, stateDB, stateDB0, headerRoot,
             block, finPc>>

svcVars == <<syncMode, envErr, newPc, newErr, dbOpened, created, lightServ, lightPeers,
             maxPeers, lesServer, startPc, startErr, started, pmMaxPeers>>

distVars == <<distPeers, outstanding, reqs, parked, need, distQuit>>

retrVars == <<peerKind, budget, retrSt, attempts, retrPeer, excluded, retrValue, retrErr>>

idxVars == <<canon, storedSections, sealLog, progress>>

mineVars == <<etherbase, wallets, engineClique, local, setPc, setArg, minerEtherbase,
              gPc, gSeen, gAcct, gRet, smPc, smEb, smErr, acceptTxs, minerSpawned,
              minerStarted>>

stopVars == <<nodeKind, lightPc, stopDbUpgrade, stopPc, stopLog>>

nodeVars == <<svcVars, distVars, retrVars, idxVars, mineVars, stopVars>>

vars == <<inputVars, vhVars, hdrVars, finVars, nodeVars>>

\* --------------------------------------------------------- VerifyHeaders
\* The worker goroutines run the same code and carry no identity: the state
\* holds how many of them are at each place, and the index each busy one holds.

\* (variant) the empty batch is not short-circuited
EarlyReturnNever(n) == FALSE

\* if len(headers) == 0 { ... return abort, results }
EarlyReturn(n) == n = 0

\* (variant) one worker per header, whatever the parallelism
WorkerCountPerHeader(p, n) == n

\* workers := runtime.GOMAXPROCS(0); if len(headers) < workers { workers = len(headers) }
WorkerCount(p, n) == IF n < p THEN n ELSE p

\* done = make(chan int, workers)
DoneCap(w) == w

\* (variant) the slot at the cursor is sent whether or not its index is checked
EmitNoGap(chk, errs, o, n) ==
    [out |-> IF o = n - 1 THEN o ELSE o + 1,
     sent |-> <<[pos |-> o, err |-> errs[o + 1]]>>,
     ret |-> o = n - 1]

\* (variant) the return at the last index comes before its send
RECURSIVE EmitEarlyReturn(_, _, _, _)
EmitEarlyReturn(chk, errs, o, n) ==
    IF ~chk[o + 1] THEN [out |-> o, sent |-> <<>>, ret |-> FALSE]
    ELSE IF o = n - 1 THEN [out |-> o, sent |-> <<>>, ret |-> TRUE]
    ELSE LET r == EmitEarlyReturn(chk, errs, o + 1, n)
         IN  [out |-> r.out, sent |-> <<[pos |-> o, err |-> errs[o + 1]]>> \o r.sent,
              ret |-> r.ret]

\* for checked[index] = true; checked[out]; out++ {
\*     errorsOut <- errors[out]; if out == len(headers)-1 { return } }
\* from the cursor o: the values sent, the cursor after, and whether it returned
RECURSIVE Emit(_, _, _, _)
Emit(chk, errs, o, n) ==
    IF ~chk[o + 1] THEN [out |-> o, sent |-> <<>>, ret |-> FALSE]
    ELSE LET e == [pos |-> o, err |-> errs[o + 1]]
         IN  IF o = n - 1 THEN [out |-> o, sent |-> <<e>>, ret |-> TRUE]
             ELSE LET r == Emit(chk, errs, o + 1, n)
                  IN  [out |-> r.out, sent |-> <<e>> \o r.sent, ret |-> r.ret]

\* errors[index] = ethash.verifyHeaderWorker(chain, headers, seals, index)
WorkerResult(index) ==
    verifyHeaderWorker(chain, fakeFail, now, headers, seals, index).err

\* The call itself: the early return, or the spawn of the workers and the sequencer.
Call ==
    /\ callPc = "idle"
    /\ callPc' = "returned"
    /\ IF EarlyReturn(Len(headers))
       THEN UNCHANGED <<workers, idle, errors, checked, seqPc>>
       ELSE /\ workers' = WorkerCount(procs, Len(headers))
            /\ idle' = workers'
            /\ errors' = [i \in 1..Len(headers) |-> "unset"]
            /\ checked' = [i \in 1..Len(headers) |-> FALSE]
            /\ seqPc' = "select"
    /\ UNCHANGED <<verifying, sending, exited, done, inputsClosed, in, out, inputsNil,
                   errorsOut, aborted,
                   abortSeen>>
    /\ UNCHANGED <<inputVars, hdrVars, finVars, nodeVars>>

\* (variant) inputs is not set to nil after the last index
SeqSendPastEnd ==
    /\ seqPc = "select"
    /\ ~inputsNil
    /\ idle > 0
    /\ idle' = idle - 1
    /\ verifying' = verifying \cup {in}
    /\ in' = in + 1
    /\ UNCHANGED <<callPc, workers, sending, exited, done, errors, inputsClosed, seqPc,
                   out, checked, errorsOut, aborted, abortSeen, inputsNil>>
    /\ UNCHANGED <<inputVars, hdrVars, finVars, nodeVars>>

\* case inputs <- in: the rendezvous with a worker's receive in "range inputs";
\* if in++; in == len(headers) { inputs = nil }
SeqSend ==
    /\ seqPc = "select"
    /\ ~inputsNil
    /\ idle > 0
    /\ idle' = idle - 1
    /\ verifying' = verifying \cup {in}
    /\ in' = in + 1
    /\ inputsNil' = (in + 1 = Len(headers))
    /\ UNCHANGED <<callPc, workers, sending, exited, done, errors, inputsClosed, seqPc,
                   out, checked, errorsOut, aborted,
                   abortSeen>>
    /\ UNCHANGED <<inputVars, hdrVars, finVars, nodeVars>>

\* (variant) the results channel has no buffer
ResultsCapUnbuffered(n) == 0

\* errorsOut := make(chan error, len(headers))
ResultsCap(n) == n

\* case index := <-done
\* Nobody receives from the results channel here (the caller may never read):
\* a send that finds the buffer full blocks the sequencer for good.
SeqRecv ==
    /\ seqPc = "select"
    /\ done # <<>>
    /\ LET index == Head(done)
           chk == [checked EXCEPT ![index + 1] = TRUE]
           r == Emit(chk, errors, out, Len(headers))
           room == ResultsCap(Len(headers)) - Len(errorsOut)
       IN  /\ checked' = chk
           /\ IF Len(r.sent) <= room
              THEN /\ out' = r.out
                   /\ errorsOut' = errorsOut \o r.sent
                   /\ seqPc' = IF r.ret THEN "exit" ELSE "select"
                   /\ inputsClosed' = r.ret
              ELSE /\ out' = out + room
                   /\ errorsOut' = errorsOut \o SubSeq(r.sent, 1, room)
                   /\ seqPc' = "blocked"
                   /\ inputsClosed' = FALSE
    /\ done' = Tail(done)
    /\ UNCHANGED <<callPc, workers, idle, verifying, sending, exited, errors, in,
                   inputsNil, aborted,
                   abortSeen>>
    /\ UNCHANGED <<inputVars, hdrVars, finVars, nodeVars>>

\* (variant) "break" in place of "return": only the select is left
SeqAbortBreak ==
    /\ seqPc = "select"
    /\ aborted
    /\ abortSeen' = TRUE
    /\ UNCHANGED <<callPc, workers, idle, verifying, sending, exited, done, errors, in,
                   out, checked, inputsNil, errorsOut, aborted, seqPc, inputsClosed>>
    /\ UNCHANGED <<inputVars, hdrVars, finVars, nodeVars>>

\* case <-abort: return, and the deferred close(inputs)
SeqAbort ==
    /\ seqPc = "select"
    /\ aborted
    /\ abortSeen' = TRUE
    /\ seqPc' = "exit"
    /\ inputsClosed' = TRUE
    /\ UNCHANGED <<callPc, workers, idle, verifying, sending, exited, done, errors, in,
                   out, checked, inputsNil, errorsOut, aborted>>
    /\ UNCHANGED <<inputVars, hdrVars, finVars, nodeVars>>

\* (variant) the worker goes on to signal completion with its slot not written
WorkerVerifyNoWrite(index) ==
    /\ index \in verifying
    /\ verifying' = verifying \ {index}
    /\ sending' = sending \cup {index}
    /\ UNCHANGED <<callPc, workers, idle, exited, done, errors, inputsClosed, seqPc, in,
                   out, checked, inputsNil, errorsOut, aborted, abortSeen>>
    /\ UNCHANGED <<inputVars, hdrVars, finVars, nodeVars>>

\* errors[index] = ethash.verifyHeaderWorker(...)
WorkerVerify(index) ==
    /\ index \in verifying
    /\ errors' = [errors EXCEPT ![index + 1] = WorkerResult(index)]
    /\ verifying' = verifying \ {index}
    /\ sending' = sending \cup {index}
    /\ UNCHANGED <<callPc, workers, idle, exited, done, inputsClosed, seqPc, in, out,
                   checked, inputsNil, errorsOut, aborted,
                   abortSeen>>
    /\ UNCHANGED <<inputVars, hdrVars, finVars, nodeVars>>

\* done <- index, then back to "range inputs"
WorkerSend(index) ==
    /\ index \in sending
    /\ Len(done) < DoneCap(workers)
    /\ done' = Append(done, index)
    /\ sending' = sending \ {index}
    /\ idle' = idle + 1
    /\ UNCHANGED <<callPc, workers, verifying, exited, errors, inputsClosed, seqPc, in,
                   out, checked, inputsNil, errorsOut, aborted,
                   abortSeen>>
    /\ UNCHANGED <<inputVars, hdrVars, finVars, nodeVars>>

\* "range inputs" ends once inputs is closed
WorkerExit ==
    /\ idle > 0
    /\ inputsClosed
    /\ idle' = idle - 1
    /\ exited' = exited + 1
    /\ UNCHANGED <<callPc, workers, verifying, sending, done, errors, inputsClosed,
                   seqPc, in, out, checked, inputsNil, errorsOut, aborted,
                   abortSeen>>
    /\ UNCHANGED <<inputVars, hdrVars, finVars, nodeVars>>

\* the caller closes abort
Abort ==
    /\ callPc = "returned"
    /\ ~aborted
    /\ aborted' = TRUE
    /\ UNCHANGED <<callPc, workers, idle, verifying, sending, exited, done, errors,
                   inputsClosed, seqPc, in, out, checked, inputsNil, errorsOut,
                   abortSeen>>
    /\ UNCHANGED <<inputVars, hdrVars, finVars, nodeVars>>

\* ---- the inputs of the batch runs

G(n) == U64Small(n)

\* a chain head, and three headers that build on it
HdrG == Hdr(<<0>>, 1, 10, 50, G(8192), G(0), 0)

HdrA == Hdr(Hash(HdrG), 1, 11, 60, G(8199), G(5000), 32)

\* child of HdrA whose gas limit moves by 8 = 8199/1024: one too many
HdrB == Hdr(Hash(HdrA), 2, 12, 70, G(8207), G(0), 0)

HdrC == Hdr(Hash(HdrB), 1, 13, 80, G(8210), G(8210), 0)

Pool == {HdrA, HdrB, HdrC}

RECURSIVE SeqsOf(_, _)
SeqsOf(S, n) ==
    IF n = 0 THEN {<<>>}
    ELSE LET shorter == SeqsOf(S, n - 1)
         IN  shorter \cup {Append(s, x) : s \in {t \in shorter : Len(t) = n - 1}, x \in S}

VHIdle ==
    /\ callPc = "idle"
    /\ workers = 0
    /\ idle = 0
    /\ verifying = {}
    /\ sending = {}
    /\ exited = 0
    /\ done = <<>>
    /\ errors = <<>>
    /\ inputsClosed = FALSE
    /\ seqPc = "none"
    /\ in = 0
    /\ out = 0
    /\ checked = <<>>
    /\ inputsNil = FALSE
    /\ errorsOut = <<>>
    /\ aborted = FALSE
    /\ abortSeen = FALSE

HdrIdle ==
    /\ par = HdrG
    /\ hop = "none"
    /\ hres = Outcome("nil", FALSE)

FinIdle ==
    /\ config = {}
    /\ frontierReward = FrontierBlockReward
    /\ byzantiumReward = ByzantiumBlockReward
    /\ stateDB = <<>>
    /\ stateDB0 = <<>>
    /\ headerRoot = <<>>
    /\ block = <<>>
    /\ finPc = "start"

SvcIdle ==
    /\ syncMode = 0
    /\ envErr = "none"
    /\ newPc = "start"
    /\ newErr = "nil"
    /\ dbOpened = FALSE
    /\ created = {}
    /\ lightServ = 0
    /\ lightPeers = 0
    /\ maxPeers = 0
    /\ lesServer = FALSE
    /\ startPc = "idle"
    /\ startErr = "nil"
    /\ started = {}
    /\ pmMaxPeers = {}

\* the peers a light client may meet
DistPeerIds == {1, 2}

DistIdle ==
    /\ distPeers = {}
    /\ outstanding = [p \in DistPeerIds |-> 0]
    /\ reqs = <<>>
    /\ parked = <<>>
    /\ need = <<>>
    /\ distQuit = FALSE

RetrIdle ==
    /\ peerKind = <<>>
    /\ budget = 1
    /\ retrSt = "Pending"
    /\ attempts = 0
    /\ retrPeer = 0
    /\ excluded = {}
    /\ retrValue = "none"
    /\ retrErr = "nil"

IdxIdle ==
    /\ canon = <<>>
    /\ storedSections = 0
    /\ sealLog = <<>>
    /\ progress = <<>>

\* the SetEtherbase callers
SetCallers == {1, 2}

\* the RPC callers of Goolase
ApiCallers == {"api1", "api2"}

\* the callers of Goolase: StartMining calls it too
GooCallers == ApiCallers \cup {"StartMining"}

\* no etherbase call has been made
MineIdle ==
    /\ etherbase = 0
    /\ wallets = <<>>
    /\ engineClique = FALSE
    /\ local = FALSE
    /\ setPc = [t \in SetCallers |-> "idle"]
    /\ setArg = [t \in SetCallers |-> 0]
    /\ minerEtherbase = 0
    /\ gPc = [c \in GooCallers |-> "idle"]
    /\ gSeen = [c \in GooCallers |-> 0]
    /\ gAcct = [c \in GooCallers |-> 0]
    /\ gRet = [addr |-> 0, err |-> "nil"]
    /\ smPc = "idle"
    /\ smEb = [addr |-> 0, err |-> "nil"]
    /\ smErr = "nil"
    /\ acceptTxs = 0
    /\ minerSpawned = {}
    /\ minerStarted = {}

\* Stop has not been called
StopIdle ==
    /\ lightPc = "start"
    /\ stopDbUpgrade = FALSE
    /\ stopPc = 0
    /\ stopLog = <<>>

NodeIdle == SvcIdle /\ DistIdle /\ RetrIdle /\ IdxIdle /\ MineIdle /\ nodeKind = "full" /\ StopIdle

VHInit ==
    /\ chain = {HdrG}
    /\ fakeFail = 13
    /\ now = 100
    /\ headers \in SeqsOf(Pool, MaxN) \cup {<<HdrG>>}
    /\ seals \in {[i \in 1..Len(headers) |-> b] : b \in BOOLEAN}
    /\ procs \in 1..MaxProcs
    /\ VHIdle
    /\ HdrIdle
    /\ FinIdle
    /\ NodeIdle

VHSteps ==
    \/ SeqSend
    \/ SeqRecv
    \/ SeqAbort
    \/ \E index \in verifying : WorkerVerify(index)
    \/ \E index \in sending : WorkerSend(index)
    \/ WorkerExit

VHNext ==
    \/ Call
    \/ VHSteps
    \/ Abort

SpecVH == VHInit /\ [][VHNext]_vars

\* the batch HdrA, HdrB, HdrC, HdrA, ... of length n
ChainedBatch(n) == [i \in 1..n |-> CASE i % 3 = 1 -> HdrA [] i % 3 = 2 -> HdrB [] OTHER -> HdrC]

\* The Go scheduler runs every runnable goroutine, and the caller makes the call.
VHFairInit ==
    /\ chain = {HdrG}
    /\ fakeFail = 13
    /\ now = 100
    /\ headers \in {ChainedBatch(n) : n \in 0..MaxN}
    /\ seals \in {[i \in 1..Len(headers) |-> b] : b \in BOOLEAN}
    /\ procs \in 1..MaxProcs
    /\ VHIdle
    /\ HdrIdle
    /\ FinIdle
    /\ NodeIdle

SpecVHFair == VHFairInit /\ [][VHNext]_vars /\ WF_vars(Call) /\ WF_vars(VHSteps)

\* ------------------------------------------------ the one-header operations
\* headers = <<p, h>>: h is the header under verification and p the header it
\* names as parent, or another one.

\* ethash.verifyHeader(chain, header, parent, seal), as VerifyHeader (line 69) and
\* verifyHeaderWorker (line 150) call it: parent is the header ParentHash names
CallverifyHeader ==
    /\ hop = "none"
    /\ Hash(par) = headers[2].ParentHash
    /\ hop' = "verifyHeader"
    /\ hres' = Outcome(verifyHeader(fakeFail, now, headers[2], par, seals[2]), TRUE)
    /\ UNCHANGED <<par, inputVars, vhVars, finVars, nodeVars>>

\* ethash.VerifyHeader(chain, header, seal)
CallVerifyHeader ==
    /\ hop = "none"
    /\ hop' = "VerifyHeader"
    /\ hres' = VerifyHeader(chain, fakeFail, now, headers[2], seals[2])
    /\ UNCHANGED <<par, inputVars, vhVars, finVars, nodeVars>>

\* verifyHeaderWorker(chain, [h], seals, 0): position 0 of a batch
CallWorkerFirst ==
    /\ hop = "none"
    /\ hop' = "worker0"
    /\ hres' = verifyHeaderWorker(chain, fakeFail, now, <<headers[2]>>, <<seals[2]>>, 0)
    /\ UNCHANGED <<par, inputVars, vhVars, finVars, nodeVars>>

\* verifyHeaderWorker(chain, [p, h], seals, 1): a later position of a batch
CallWorkerNext ==
    /\ hop = "none"
    /\ hop' = "worker1"
    /\ hres' = verifyHeaderWorker(chain, fakeFail, now, headers, seals, 1)
    /\ UNCHANGED <<par, inputVars, vhVars, finVars, nodeVars>>

\* ethash.Prepare(chain, header): the header and the chain are only read
CallPrepare ==
    /\ hop = "none"
    /\ hop' = "Prepare"
    /\ hres' = Outcome(Prepare(chain, headers[2]), FALSE)
    /\ UNCHANGED <<par, inputVars, vhVars, finVars, nodeVars>>

\* ---- the inputs of the one-header runs

GasMax63 == U64(32767, 65535, 65535, 65535)

GasPow63 == U64(32768, 0, 0, 0)

GasMax64 == U64(65535, 65535, 65535, 65535)

Parents ==
    {Hdr(<<0>>, 1, 10, t, gl, G(0), 0) :
        t \in {50, 120}, gl \in {G(5000), G(8192), GasMax63, GasMax64}}

Children(p) ==
    {Hdr(ph, 2, n, t, gl, gu, x) :
        ph \in {Hash(p), <<1>>}, n \in {11, 12}, t \in {50, 60, 115, 116},
        gl \in {G(4999), G(5000), G(8184), G(8199), G(8200), GasMax63, GasPow63},
        gu \in {G(0), G(5000), G(8200)}, x \in {32, 33}}

HdrInit ==
    /\ par \in Parents
    /\ \E h \in Children(par) :
          /\ headers = <<par, h>>
          /\ chain \in {{}, {par}, {h}, {par, h}}
    /\ seals \in {<<FALSE, b>> : b \in BOOLEAN}
    /\ fakeFail \in {0, 11}
    /\ now = 100
    /\ procs = 1
    /\ hop = "none"
    /\ hres = Outcome("nil", FALSE)
    /\ VHIdle
    /\ FinIdle
    /\ NodeIdle

HdrNext ==
    \/ CallverifyHeader
    \/ CallVerifyHeader
    \/ CallWorkerFirst
    \/ CallWorkerNext
    \/ CallPrepare

SpecHdr == HdrInit /\ [][HdrNext]_vars

\* ------------------------------------------------------------------ Finalize

\* config.IsByzantium(num): the fork is configured and num is at or past it
IsByzantium(cfg, num) == \E b \in cfg : b <= num

\* state.AddBalance(addr, amount)
AddBalance(st, addr, amount) == [st EXCEPT ![addr] = @ + amount]

\* (variant) the two rewards are taken the wrong way round
BlockRewardSwapped(cfg, header, frontier, byzantium) ==
    IF \E b \in cfg : b <= header.Number THEN frontier ELSE byzantium

\* blockReward := FrontierBlockReward
\* if config.IsByzantium(header.Number) { blockReward = ByzantiumBlockReward }
BlockReward(cfg, header, frontier, byzantium) ==
    IF IsByzantium(cfg, header.Number) THEN byzantium ELSE frontier

\* reward := new(big.Int).Set(blockReward); state.AddBalance(header.Coinbase, reward)
accumulateRewards(cfg, st, header, frontier, byzantium) ==
    AddBalance(st, header.Coinbase, BlockReward(cfg, header, frontier, byzantium))

\* state.IntermediateRoot(true): a collision-free digest of the state
IntermediateRoot(st) == st

\* types.NewBlock(header, txs, receipts): the block holds a copy of the header
NewBlock(header, rootOfHeader) == [header |-> header, Root |-> rootOfHeader]

\* accumulateRewards(chain.Config(), state, header)
FinReward ==
    /\ finPc = "start"
    /\ stateDB' = accumulateRewards(config, stateDB, headers[1], frontierReward,
                                    byzantiumReward)
    /\ finPc' = "rewarded"
    /\ UNCHANGED <<config, frontierReward, byzantiumReward, stateDB0, headerRoot, block>>
    /\ UNCHANGED <<inputVars, vhVars, hdrVars, nodeVars>>

\* (variant) the root is the one of the state Finalize was handed
FinRootBeforeReward ==
    /\ finPc = "rewarded"
    /\ headerRoot' = IntermediateRoot(stateDB0)
    /\ finPc' = "rooted"
    /\ UNCHANGED <<config, frontierReward, byzantiumReward, stateDB, stateDB0, block>>
    /\ UNCHANGED <<inputVars, vhVars, hdrVars, nodeVars>>

\* header.Root = state.IntermediateRoot(true)
FinRoot ==
    /\ finPc = "rewarded"
    /\ headerRoot' = IntermediateRoot(stateDB)
    /\ finPc' = "rooted"
    /\ UNCHANGED <<config, frontierReward, byzantiumReward, stateDB, stateDB0, block>>
    /\ UNCHANGED <<inputVars, vhVars, hdrVars, nodeVars>>

\* return types.NewBlock(header, txs, receipts), nil
FinAssemble ==
    /\ finPc = "rooted"
    /\ block' = NewBlock(headers[1], headerRoot)
    /\ finPc' = "assembled"
    /\ UNCHANGED <<config, frontierReward, byzantiumReward, stateDB, stateDB0,
                   headerRoot>>
    /\ UNCHANGED <<inputVars, vhVars, hdrVars, nodeVars>>

Accounts == {1, 2, 3}

FinInit ==
    /\ config \in {{}, {0}, {2}, {3}}
    /\ \E cb \in Accounts, n \in 0..4 :
          headers = <<Hdr(<<0>>, cb, n, 60, G(8192), G(0), 0)>>
    /\ stateDB \in [Accounts -> {0, 4}]
    /\ stateDB0 = stateDB
    /\ frontierReward = FrontierBlockReward
    /\ byzantiumReward = ByzantiumBlockReward
    /\ headerRoot = <<>>
    /\ block = <<>>
    /\ finPc = "start"
    /\ chain = {}
    /\ seals = <<FALSE>>
    /\ fakeFail = 0
    /\ now = 100
    /\ procs = 1
    /\ VHIdle
    /\ HdrIdle
    /\ NodeIdle

FinNext ==
    \/ FinReward
    \/ FinRoot
    \/ FinAssemble

SpecFin == FinInit /\ [][FinNext]_vars

\* ------------------------------------------ the full-node service: New, Start
\* (src/goolabackend/backend.go)

\* downloader.FullSync, FastSync, LightSync
FullSync == 0

FastSync == 1

LightSync == 2

\* SyncMode.IsValid: mode >= FullSync && mode <= LightSync
IsValid(mode) == mode >= FullSync /\ mode <= LightSync

\* New returns (nil, err)
NewFails(err) ==
    /\ newPc' = "failed"
    /\ newErr' = err

\* (variant) only the validity of the mode is tested
NewCheckModeValidOnly ==
    /\ newPc = "start"
    /\ IF ~IsValid(syncMode) THEN NewFails("invalid sync mode")
       ELSE newPc' = "checked" /\ UNCHANGED newErr
    /\ UNCHANGED <<syncMode, envErr, dbOpened, created, lightServ, lightPeers, maxPeers,
                   lesServer, startPc, startErr, started, pmMaxPeers>>
    /\ UNCHANGED <<inputVars, vhVars, hdrVars, finVars, distVars, retrVars, idxVars,
                   mineVars, stopVars>>

\* if config.SyncMode == downloader.LightSync { return nil, errors.New(...) }
\* if !config.SyncMode.IsValid() { return nil, fmt.Errorf(...) }
NewCheckMode ==
    /\ newPc = "start"
    /\ IF syncMode = LightSync THEN NewFails("light sync mode")
       ELSE IF ~IsValid(syncMode) THEN NewFails("invalid sync mode")
       ELSE newPc' = "checked" /\ UNCHANGED newErr
    /\ UNCHANGED <<syncMode, envErr, dbOpened, created, lightServ, lightPeers, maxPeers,
                   lesServer, startPc, startErr, started, pmMaxPeers>>
    /\ UNCHANGED <<inputVars, vhVars, hdrVars, finVars, distVars, retrVars, idxVars,
                   mineVars, stopVars>>

\* chainDb, err := CreateDB(ctx, config, "chaindata"); stopDbUpgrade := ...
NewCreateDB ==
    /\ newPc = "checked"
    /\ IF envErr = "db" THEN NewFails("db") /\ UNCHANGED dbOpened
       ELSE newPc' = "db" /\ dbOpened' = TRUE /\ UNCHANGED newErr
    /\ UNCHANGED <<syncMode, envErr, created, lightServ, lightPeers, maxPeers,
                   lesServer, startPc, startErr, started, pmMaxPeers>>
    /\ UNCHANGED <<inputVars, vhVars, hdrVars, finVars, distVars, retrVars, idxVars,
                   mineVars, stopVars>>

\* core.SetupGenesisBlock: an error other than a ConfigCompatError ends New
NewSetupGenesis ==
    /\ newPc = "db"
    /\ IF envErr = "genesis" THEN NewFails("genesis")
       ELSE newPc' = "genesis" /\ UNCHANGED newErr
    /\ UNCHANGED <<syncMode, envErr, dbOpened, created, lightServ, lightPeers, maxPeers,
                   lesServer, startPc, startErr, started, pmMaxPeers>>
    /\ UNCHANGED <<inputVars, vhVars, hdrVars, finVars, distVars, retrVars, idxVars,
                   mineVars, stopVars>>

\* fullGoola := &FullGoola{ ..., engine: CreateConsensusEngine(...),
\*     bloomIndexer: NewBloomIndexer(...) }
NewStruct ==
    /\ newPc = "genesis"
    /\ created' = created \cup {"engine", "bloomIndexer"}
    /\ newPc' = "struct"
    /\ UNCHANGED <<syncMode, envErr, newErr, dbOpened, lightServ, lightPeers, maxPeers,
                   lesServer, startPc, startErr, started, pmMaxPeers>>
    /\ UNCHANGED <<inputVars, vhVars, hdrVars, finVars, distVars, retrVars, idxVars,
                   mineVars, stopVars>>

\* if !config.SkipBcVersionCheck { ... version mismatch ... }
NewVersionCheck ==
    /\ newPc = "struct"
    /\ IF envErr = "version" THEN NewFails("version")
       ELSE newPc' = "version" /\ UNCHANGED newErr
    /\ UNCHANGED <<syncMode, envErr, dbOpened, created, lightServ, lightPeers, maxPeers,
                   lesServer, startPc, startErr, started, pmMaxPeers>>
    /\ UNCHANGED <<inputVars, vhVars, hdrVars, finVars, distVars, retrVars, idxVars,
                   mineVars, stopVars>>

\* fullGoola.blockchain, err = core.NewBlockChain(...); bloomIndexer.Start(...)
NewBlockChain ==
    /\ newPc = "version"
    /\ IF envErr = "blockchain" THEN NewFails("blockchain") /\ UNCHANGED created
       ELSE /\ newPc' = "blockchain"
            /\ created' = created \cup {"blockchain"}
            /\ UNCHANGED newErr
    /\ UNCHANGED <<syncMode, envErr, dbOpened, lightServ, lightPeers, maxPeers,
                   lesServer, startPc, startErr, started, pmMaxPeers>>
    /\ UNCHANGED <<inputVars, vhVars, hdrVars, finVars, distVars, retrVars, idxVars,
                   mineVars, stopVars>>

\* fullGoola.txPool = core.NewTxPool(...)
NewTxPool ==
    /\ newPc = "blockchain"
    /\ created' = created \cup {"txPool"}
    /\ newPc' = "txPool"
    /\ UNCHANGED <<syncMode, envErr, newErr, dbOpened, lightServ, lightPeers, maxPeers,
                   lesServer, startPc, startErr, started, pmMaxPeers>>
    /\ UNCHANGED <<inputVars, vhVars, hdrVars, finVars, distVars, retrVars, idxVars,
                   mineVars, stopVars>>

\* if fullGoola.protocolManager, err = NewProtocolManager(...); err != nil
NewProtocolManager ==
    /\ newPc = "txPool"
    /\ IF envErr = "protocolManager" THEN NewFails("protocolManager") /\ UNCHANGED created
       ELSE /\ newPc' = "protocolManager"
            /\ created' = created \cup {"protocolManager"}
            /\ UNCHANGED newErr
    /\ UNCHANGED <<syncMode, envErr, dbOpened, lightServ, lightPeers, maxPeers,
                   lesServer, startPc, startErr, started, pmMaxPeers>>
    /\ UNCHANGED <<inputVars, vhVars, hdrVars, finVars, distVars, retrVars, idxVars,
                   mineVars, stopVars>>

\* fullGoola.miner = miner.New(...); ApiBackend, gpo; return fullGoola, nil
NewMiner ==
    /\ newPc = "protocolManager"
    /\ created' = created \cup {"miner", "ApiBackend"}
    /\ newPc' = "done"
    /\ UNCHANGED <<syncMode, envErr, newErr, dbOpened, lightServ, lightPeers, maxPeers,
                   lesServer, startPc, startErr, started, pmMaxPeers>>
    /\ UNCHANGED <<inputVars, vhVars, hdrVars, finVars, distVars, retrVars, idxVars,
                   mineVars, stopVars>>

\* AddLesServer: the node hands the light server to the service before Start
AddLesServer ==
    /\ newPc = "done"
    /\ startPc = "idle"
    /\ ~lesServer
    /\ lesServer' = TRUE
    /\ UNCHANGED <<syncMode, envErr, newPc, newErr, dbOpened, created, lightServ,
                   lightPeers, maxPeers, startPc, startErr, started, pmMaxPeers>>
    /\ UNCHANGED <<inputVars, vhVars, hdrVars, finVars, distVars, retrVars, idxVars,
                   mineVars, stopVars>>

\* (variant) as many light peers as peers are let through
StartLightPeersInclusive ==
    /\ newPc = "done"
    /\ startPc = "idle"
    /\ startPc' = "returned"
    /\ IF lightServ > 0 /\ lightPeers > maxPeers
       THEN /\ startErr' = "invalid peer config"
            /\ started' = {"bloomHandlers", "netRPCService"}
            /\ UNCHANGED pmMaxPeers
       ELSE /\ startErr' = "nil"
            /\ pmMaxPeers' = {IF lightServ > 0 THEN maxPeers - lightPeers ELSE maxPeers}
            /\ started' = {"bloomHandlers", "netRPCService", "protocolManager"}
                             \cup (IF lesServer THEN {"lesServer"} ELSE {})
    /\ UNCHANGED <<syncMode, envErr, newPc, newErr, dbOpened, created, lightServ,
                   lightPeers, maxPeers, lesServer>>
    /\ UNCHANGED <<inputVars, vhVars, hdrVars, finVars, distVars, retrVars, idxVars,
                   mineVars, stopVars>>

\* FullGoola.Start(srvr)
Start ==
    /\ newPc = "done"
    /\ startPc = "idle"
    /\ startPc' = "returned"
    /\ IF lightServ > 0 /\ lightPeers >= maxPeers
       THEN /\ startErr' = "invalid peer config"
            /\ started' = {"bloomHandlers", "netRPCService"}
            /\ UNCHANGED pmMaxPeers
       ELSE /\ startErr' = "nil"
            /\ pmMaxPeers' = {IF lightServ > 0 THEN maxPeers - lightPeers ELSE maxPeers}
            /\ started' = {"bloomHandlers", "netRPCService", "protocolManager"}
                             \cup (IF lesServer THEN {"lesServer"} ELSE {})
    /\ UNCHANGED <<syncMode, envErr, newPc, newErr, dbOpened, created, lightServ,
                   lightPeers, maxPeers, lesServer>>
    /\ UNCHANGED <<inputVars, vhVars, hdrVars, finVars, distVars, retrVars, idxVars,
                   mineVars, stopVars>>

\* ---------------------------------------------- the light service: New, Start
\* (src/unnamed/part_001)

\* what les.New has created when the step named by envErr fails, or when none does
LightCreated(failing) ==
    IF failing \in {"db", "genesis"} THEN {}
    ELSE {"engine", "bloomIndexer", "chtIndexer", "bloomTrieIndexer", "odr"}
         \cup (IF failing = "blockchain" THEN {} ELSE {"blockchain", "txPool"})
         \cup (IF failing \in {"blockchain", "protocolManager"} THEN {}
               ELSE {"protocolManager", "ApiBackend"})

\* les.New(ctx, config)
LightNew ==
    /\ nodeKind = "light"
    /\ lightPc = "start"
    /\ dbOpened' = (envErr # "db")
    /\ created' = LightCreated(envErr)
    /\ IF envErr = "none"
       THEN lightPc' = "created" /\ UNCHANGED newErr
       ELSE lightPc' = "failed" /\ newErr' = envErr
    /\ UNCHANGED <<syncMode, envErr, newPc, lightServ, lightPeers, maxPeers, lesServer,
                   startPc, startErr, started, pmMaxPeers>>
    /\ UNCHANGED <<nodeKind, stopDbUpgrade, stopPc, stopLog>>
    /\ UNCHANGED <<inputVars, vhVars, hdrVars, finVars, distVars, retrVars, idxVars,
                   mineVars>>

\* LightGoola.Start(srvr)
LightStart ==
    /\ nodeKind = "light"
    /\ lightPc = "created"
    /\ lightPc' = "started"
    /\ started' = {"bloomHandlers", "netRPCService", "serverPool", "protocolManager"}
    /\ pmMaxPeers' = {lightPeers}
    /\ UNCHANGED <<syncMode, envErr, newPc, newErr, dbOpened, created, lightServ,
                   lightPeers, maxPeers, lesServer, startPc, startErr>>
    /\ UNCHANGED <<nodeKind, stopDbUpgrade, stopPc, stopLog>>
    /\ UNCHANGED <<inputVars, vhVars, hdrVars, finVars, distVars, retrVars, idxVars,
                   mineVars>>

\* ------------------------------------------------------------------- Stop

\* (variant) the database is closed before the miner is stopped
FullStopOrderDbFirst ==
    <<"stopDbUpgrade", "bloomIndexer", "blockchain", "protocolManager", "lesServer",
      "txPool", "chainDb", "miner", "eventMux", "shutdownChan">>

\* the statements of FullGoola.Stop, in order
FullStopOrder ==
    <<"stopDbUpgrade", "bloomIndexer", "blockchain", "protocolManager", "lesServer",
      "txPool", "miner", "eventMux", "chainDb", "shutdownChan">>

\* the statements of LightGoola.Stop, in order
LightStopOrder ==
    <<"odr", "bloomIndexer", "chtIndexer", "bloomTrieIndexer", "blockchain",
      "protocolManager", "txPool", "eventMux", "sleep", "chainDb", "shutdownChan">>

\* the node calls Stop on a service it has constructed
StopCall ==
    /\ stopPc = 0
    /\ \/ nodeKind = "full" /\ newPc = "done"
       \/ nodeKind = "light" /\ lightPc \in {"created", "started"}
    /\ stopPc' = 1
    /\ UNCHANGED <<nodeKind, lightPc, stopDbUpgrade, stopLog>>
    /\ UNCHANGED svcVars
    /\ UNCHANGED <<inputVars, vhVars, hdrVars, finVars, distVars, retrVars, idxVars,
                   mineVars>>

\* FullGoola.Stop, one statement: "if fullGoola.stopDbUpgrade != nil" guards the
\* call of stopDbUpgrade, "if fullGoola.lesServer != nil" guards lesServer.Stop
FullStop ==
    /\ nodeKind = "full"
    /\ stopPc \in 1..Len(FullStopOrder)
    /\ stopLog' = IF \/ FullStopOrder[stopPc] = "stopDbUpgrade" /\ ~stopDbUpgrade
                     \/ FullStopOrder[stopPc] = "lesServer" /\ ~lesServer
                  THEN stopLog
                  ELSE Append(stopLog, FullStopOrder[stopPc])
    /\ stopPc' = stopPc + 1
    /\ UNCHANGED <<nodeKind, lightPc, stopDbUpgrade>>
    /\ UNCHANGED svcVars
    /\ UNCHANGED <<inputVars, vhVars, hdrVars, finVars, distVars, retrVars, idxVars,
                   mineVars>>

\* LightGoola.Stop, one statement: New always sets the three indexers
LightStop ==
    /\ nodeKind = "light"
    /\ stopPc \in 1..Len(LightStopOrder)
    /\ stopLog' = Append(stopLog, LightStopOrder[stopPc])
    /\ stopPc' = stopPc + 1
    /\ UNCHANGED <<nodeKind, lightPc, stopDbUpgrade>>
    /\ UNCHANGED svcVars
    /\ UNCHANGED <<inputVars, vhVars, hdrVars, finVars, distVars, retrVars, idxVars,
                   mineVars>>

\* every variable of the consensus engine at rest
ConsensusIdle ==
    /\ chain = {}
    /\ fakeFail = 0
    /\ now = 100
    /\ headers = <<>>
    /\ seals = <<>>
    /\ procs = 1
    /\ VHIdle
    /\ HdrIdle
    /\ FinIdle

SvcInit ==
    /\ nodeKind \in {"full", "light"}
    /\ IF nodeKind = "full"
       THEN /\ syncMode \in -1..3
            /\ envErr \in {"none", "db", "genesis", "version", "blockchain",
                            "protocolManager"}
            /\ newPc = "start"
            /\ lightServ \in {0, 1}
            /\ maxPeers \in 0..MaxPeerCount
            /\ stopDbUpgrade \in BOOLEAN
       ELSE /\ syncMode = FullSync
            /\ envErr \in {"none", "db", "genesis", "blockchain", "protocolManager"}
            /\ newPc = "absent"
            /\ lightServ = 0
            /\ maxPeers = 0
            /\ stopDbUpgrade = FALSE
    /\ lightPc = "start"
    /\ stopPc = 0
    /\ stopLog = <<>>
    /\ newErr = "nil"
    /\ dbOpened = FALSE
    /\ created = {}
    /\ lightPeers \in 0..MaxPeerCount
    /\ lesServer = FALSE
    /\ startPc = "idle"
    /\ startErr = "nil"
    /\ started = {}
    /\ pmMaxPeers = {}
    /\ ConsensusIdle
    /\ DistIdle
    /\ RetrIdle
    /\ IdxIdle
    /\ MineIdle

SvcNext ==
    \/ NewCheckMode
    \/ NewCreateDB
    \/ NewSetupGenesis
    \/ NewStruct
    \/ NewVersionCheck
    \/ NewBlockChain
    \/ NewTxPool
    \/ NewProtocolManager
    \/ NewMiner
    \/ AddLesServer
    \/ Start
    \/ LightNew
    \/ LightStart
    \/ StopCall
    \/ FullStop
    \/ LightStop

SpecSvc == SvcInit /\ [][SvcNext]_vars

\* ------------------------------- the etherbase: Goolase, SetEtherbase, StartMining
\* (src/goolabackend/backend.go)

\* the non-zero addresses; 0 stands for common.Address{}
Addresses == {1, 2}

\* the wallets the account manager may hold, each with its accounts in order
WalletChoices == {<<>>, <<<<1>>>>, <<<<2, 1>>>>, <<<<>>, <<2>>>>}

\* wallets[0].Accounts()[0] when both exist
FirstAccount(ws) == IF Len(ws) > 0 /\ Len(ws[1]) > 0 THEN {ws[1][1]} ELSE {}

\* accountManager.Find(accounts.Account{Address: a}) finds a wallet
Find(ws, a) == \E i \in 1..Len(ws) : \E j \in 1..Len(ws[i]) : ws[i][j] = a

\* SetEtherbase: lock.Lock(); etherbase = goolase; lock.Unlock()
SetEtherbaseStore(t) ==
    /\ setPc[t] = "idle"
    /\ \E a \in Addresses :
          /\ etherbase' = a
          /\ setArg' = [setArg EXCEPT ![t] = a]
    /\ setPc' = [setPc EXCEPT ![t] = "stored"]
    /\ UNCHANGED <<wallets, engineClique, local, minerEtherbase, gPc, gSeen, gAcct,
                   gRet, smPc, smEb, smErr, acceptTxs, minerSpawned, minerStarted>>
    /\ UNCHANGED <<inputVars, vhVars, hdrVars, finVars, svcVars, distVars, retrVars,
                   idxVars, stopVars>>

\* SetEtherbase: fullGoola.miner.SetEtherbase(goolase), after the lock is released
SetEtherbaseMiner(t) ==
    /\ setPc[t] = "stored"
    /\ minerEtherbase' = setArg[t]
    /\ setArg' = [setArg EXCEPT ![t] = 0]
    /\ setPc' = [setPc EXCEPT ![t] = "done"]
    /\ UNCHANGED <<etherbase, wallets, engineClique, local, gPc, gSeen, gAcct,
                   gRet, smPc, smEb, smErr, acceptTxs, minerSpawned, minerStarted>>
    /\ UNCHANGED <<inputVars, vhVars, hdrVars, finVars, svcVars, distVars, retrVars,
                   idxVars, stopVars>>

\* Goolase returns ret to caller c; StartMining goes on with it as eb, err
GoolaseReturn(c, ret) ==
    /\ gPc' = [gPc EXCEPT ![c] = "returned"]
    /\ gSeen' = [gSeen EXCEPT ![c] = 0]
    /\ gAcct' = [gAcct EXCEPT ![c] = 0]
    /\ gRet' = ret
    /\ IF c = "StartMining"
       THEN smEb' = ret /\ smPc' = "resolved"
       ELSE UNCHANGED <<smEb, smPc>>

\* Goolase: lock.RLock(); goolase := fullGoola.etherbase; lock.RUnlock()
GoolaseRead(c) ==
    /\ gPc[c] \in {"idle", "returned"}
    /\ gPc' = [gPc EXCEPT ![c] = "read"]
    /\ gSeen' = [gSeen EXCEPT ![c] = etherbase]
    /\ UNCHANGED <<etherbase, wallets, engineClique, local, setPc, setArg, minerEtherbase,
                   gAcct, gRet, smPc, smEb, smErr, acceptTxs, minerSpawned, minerStarted>>
    /\ UNCHANGED <<inputVars, vhVars, hdrVars, finVars, svcVars, distVars, retrVars,
                   idxVars, stopVars>>

\* Goolase: "if goolase != (common.Address{})" returns what was read; otherwise the
\* wallets are read, with no lock held, and without a first account of the first
\* wallet the call returns the error
GoolaseLookup(c) ==
    /\ gPc[c] = "read"
    /\ IF gSeen[c] # 0
       THEN GoolaseReturn(c, [addr |-> gSeen[c], err |-> "nil"])
       ELSE IF FirstAccount(wallets) # {}
       THEN /\ gPc' = [gPc EXCEPT ![c] = "found"]
            /\ gAcct' = [gAcct EXCEPT ![c] = CHOOSE a \in FirstAccount(wallets) : TRUE]
            /\ UNCHANGED <<gSeen, gRet, smEb, smPc>>
       ELSE GoolaseReturn(c, [addr |-> 0, err |-> "goolase must be explicitly specified"])
    /\ UNCHANGED <<etherbase, wallets, engineClique, local, setPc, setArg, minerEtherbase,
                   smErr, acceptTxs, minerSpawned, minerStarted>>
    /\ UNCHANGED <<inputVars, vhVars, hdrVars, finVars, svcVars, distVars, retrVars,
                   idxVars, stopVars>>

\* Goolase: lock.Lock(); fullGoola.etherbase = goolase; lock.Unlock(); return
GoolaseStore(c) ==
    /\ gPc[c] = "found"
    /\ etherbase' = gAcct[c]
    /\ GoolaseReturn(c, [addr |-> gAcct[c], err |-> "nil"])
    /\ UNCHANGED <<wallets, engineClique, local, setPc, setArg, minerEtherbase,
                   smErr, acceptTxs, minerSpawned, minerStarted>>
    /\ UNCHANGED <<inputVars, vhVars, hdrVars, finVars, svcVars, distVars, retrVars,
                   idxVars, stopVars>>

\* StartMining(local): eb, err := fullGoola.Goolase(), up to the read of the etherbase
StartMiningCall ==
    /\ smPc = "idle"
    /\ \E l \in BOOLEAN : local' = l
    /\ smPc' = "goolase"
    /\ gPc' = [gPc EXCEPT !["StartMining"] = "read"]
    /\ gSeen' = [gSeen EXCEPT !["StartMining"] = etherbase]
    /\ UNCHANGED <<etherbase, wallets, engineClique, setPc, setArg, minerEtherbase,
                   gAcct, gRet, smEb, smErr, acceptTxs, minerSpawned, minerStarted>>
    /\ UNCHANGED <<inputVars, vhVars, hdrVars, finVars, svcVars, distVars, retrVars,
                   idxVars, stopVars>>

\* StartMining: "if err != nil" and the clique branch
StartMiningCheck ==
    /\ smPc = "resolved"
    /\ IF smEb.err # "nil"
       THEN smPc' = "failed" /\ smErr' = "etherbase missing"
       ELSE IF engineClique /\ ~Find(wallets, smEb.addr)
       THEN smPc' = "failed" /\ smErr' = "signer missing"
       ELSE smPc' = "authorized" /\ UNCHANGED smErr
    /\ UNCHANGED <<etherbase, wallets, engineClique, local, setPc, setArg, minerEtherbase,
                   gPc, gSeen, gAcct, gRet, smEb, acceptTxs, minerSpawned,
                   minerStarted>>
    /\ UNCHANGED <<inputVars, vhVars, hdrVars, finVars, svcVars, distVars, retrVars,
                   idxVars, stopVars>>

\* (variant) transaction acceptance is left as it was
StartMiningAcceptNever ==
    /\ smPc = "authorized"
    /\ smPc' = "accepted"
    /\ UNCHANGED <<etherbase, wallets, engineClique, local, setPc, setArg, minerEtherbase,
                   gPc, gSeen, gAcct, gRet, smEb, smErr, acceptTxs, minerSpawned,
                   minerStarted>>
    /\ UNCHANGED <<inputVars, vhVars, hdrVars, finVars, svcVars, distVars, retrVars,
                   idxVars, stopVars>>

\* StartMining: if local { atomic.StoreUint32(&protocolManager.acceptTxs, 1) }
StartMiningAccept ==
    /\ smPc = "authorized"
    /\ smPc' = "accepted"
    /\ acceptTxs' = IF local THEN 1 ELSE acceptTxs
    /\ UNCHANGED <<etherbase, wallets, engineClique, local, setPc, setArg, minerEtherbase,
                   gPc, gSeen, gAcct, gRet, smEb, smErr, minerSpawned, minerStarted>>
    /\ UNCHANGED <<inputVars, vhVars, hdrVars, finVars, svcVars, distVars, retrVars,
                   idxVars, stopVars>>

\* StartMining: go fullGoola.miner.Start(eb); return nil
StartMiningSpawn ==
    /\ smPc = "accepted"
    /\ smPc' = "returned"
    /\ smErr' = "nil"
    /\ minerSpawned' = {smEb.addr}
    /\ UNCHANGED <<etherbase, wallets, engineClique, local, setPc, setArg, minerEtherbase,
                   gPc, gSeen, gAcct, gRet, smEb, acceptTxs, minerStarted>>
    /\ UNCHANGED <<inputVars, vhVars, hdrVars, finVars, svcVars, distVars, retrVars,
                   idxVars, stopVars>>

\* the goroutine of "go fullGoola.miner.Start(eb)" begins
MinerStart ==
    /\ minerSpawned # {}
    /\ minerStarted = {}
    /\ minerStarted' = minerSpawned
    /\ UNCHANGED <<etherbase, wallets, engineClique, local, setPc, setArg, minerEtherbase,
                   gPc, gSeen, gAcct, gRet, smPc, smEb, smErr, acceptTxs, minerSpawned>>
    /\ UNCHANGED <<inputVars, vhVars, hdrVars, finVars, svcVars, distVars, retrVars,
                   idxVars, stopVars>>

\* the account manager gains or loses wallets and accounts
WalletsChange ==
    /\ \E ws \in WalletChoices \ {wallets} : wallets' = ws
    /\ UNCHANGED <<etherbase, engineClique, local, setPc, setArg, minerEtherbase,
                   gPc, gSeen, gAcct, gRet, smPc, smEb, smErr, acceptTxs, minerSpawned,
                   minerStarted>>
    /\ UNCHANGED <<inputVars, vhVars, hdrVars, finVars, svcVars, distVars, retrVars,
                   idxVars, stopVars>>

\* the service as New returns it
SvcCreated ==
    /\ syncMode = FullSync
    /\ envErr = "none"
    /\ newPc = "done"
    /\ newErr = "nil"
    /\ dbOpened = TRUE
    /\ created = {"engine", "bloomIndexer", "blockchain", "txPool", "protocolManager",
                  "miner", "ApiBackend"}
    /\ lightServ = 0
    /\ lightPeers = 0
    /\ maxPeers = 0
    /\ lesServer = FALSE
    /\ startPc = "idle"
    /\ startErr = "nil"
    /\ started = {}
    /\ pmMaxPeers = {}

MineInit ==
    /\ etherbase \in {0} \cup Addresses
    /\ wallets \in WalletChoices
    /\ engineClique \in BOOLEAN
    /\ local = FALSE
    /\ setPc = [t \in SetCallers |-> "idle"]
    /\ setArg = [t \in SetCallers |-> 0]
    /\ minerEtherbase = 0
    /\ gPc = [c \in GooCallers |-> "idle"]
    /\ gSeen = [c \in GooCallers |-> 0]
    /\ gAcct = [c \in GooCallers |-> 0]
    /\ gRet = [addr |-> 0, err |-> "nil"]
    /\ smPc = "idle"
    /\ smEb = [addr |-> 0, err |-> "nil"]
    /\ smErr = "nil"
    /\ acceptTxs = 0
    /\ minerSpawned = {}
    /\ minerStarted = {}
    /\ SvcCreated
    /\ nodeKind = "full"
    /\ StopIdle
    /\ ConsensusIdle
    /\ DistIdle
    /\ RetrIdle
    /\ IdxIdle

\* concurrent Goolase and SetEtherbase calls, the wallets changing beside them
EtherbaseInit ==
    /\ MineInit
    /\ engineClique = FALSE

EtherbaseNext ==
    \/ \E t \in SetCallers : SetEtherbaseStore(t)
    \/ \E t \in SetCallers : SetEtherbaseMiner(t)
    \/ \E c \in ApiCallers : GoolaseRead(c)
    \/ \E c \in ApiCallers : GoolaseLookup(c)
    \/ \E c \in ApiCallers : GoolaseStore(c)
    \/ WalletsChange

SpecEtherbase == EtherbaseInit /\ [][EtherbaseNext]_vars

\* StartMining, with one Goolase caller and one SetEtherbase caller beside it
MineNext ==
    \/ SetEtherbaseStore(1)
    \/ SetEtherbaseMiner(1)
    \/ GoolaseRead("api1")
    \/ \E c \in GooCallers : GoolaseLookup(c)
    \/ \E c \in GooCallers : GoolaseStore(c)
    \/ StartMiningCall
    \/ StartMiningCheck
    \/ StartMiningAccept
    \/ StartMiningSpawn
    \/ MinerStart
    \/ WalletsChange

SpecMine == MineInit /\ [][MineNext]_vars

\* ------------------------------------------------------- RequestDistributor
\* (spec 4.2; the light client of src/unnamed/part_001 creates it at line 101)

\* the per-peer ceiling of outstanding requests
PeerCeiling == 2

\* the head every peer advertises, and its reputation
PeerHead(p) == p

PeerReputation(p) == 3 - p

Req(st, peer) == [st |-> st, peer |-> peer]

\* (variant) the load of a peer is not part of the predicate
EligibleAnyLoad(peers, load, p, blk) ==
    /\ p \in peers
    /\ PeerHead(p) >= blk

\* registered, advertised head >= required block, outstanding count below ceiling
Eligible(peers, load, p, blk) ==
    /\ p \in peers
    /\ PeerHead(p) >= blk
    /\ load[p] < PeerCeiling

\* lower load first, then higher reputation, then the smaller identity
CostLess(load, p, q) ==
    \/ load[p] < load[q]
    \/ load[p] = load[q] /\ PeerReputation(p) > PeerReputation(q)
    \/ load[p] = load[q] /\ PeerReputation(p) = PeerReputation(q) /\ p < q

\* the eligible peer of least cost
BestPeer(peers, load, blk) ==
    CHOOSE p \in DistPeerIds :
        /\ Eligible(peers, load, p, blk)
        /\ \A q \in DistPeerIds \ {p} : Eligible(peers, load, q, blk) => CostLess(load, p, q)

HasEligible(peers, load, blk) == \E p \in DistPeerIds : Eligible(peers, load, p, blk)

\* assigning p to request r: the count goes up in the same step
Assign(st, r, p) ==
    [st EXCEPT !.out = [@ EXCEPT ![p] = @ + 1], !.reqs = [@ EXCEPT ![r] = Req("assigned", p)]]

\* the parked requests are re-evaluated, oldest first, from position i of the queue
RECURSIVE Reevaluate(_, _, _)
Reevaluate(st, peers, i) ==
    IF i > Len(st.parked) THEN st
    ELSE LET r == st.parked[i]
         IN  IF HasEligible(peers, st.out, need[r])
             THEN Reevaluate(
                      [Assign(st, r, BestPeer(peers, st.out, need[r])) EXCEPT
                          !.parked = SubSeq(st.parked, 1, i - 1)
                                       \o SubSeq(st.parked, i + 1, Len(st.parked))],
                      peers, i)
             ELSE Reevaluate(st, peers, i + 1)

DistState == [out |-> outstanding, reqs |-> reqs, parked |-> parked]

DistSet(st) ==
    /\ outstanding' = st.out
    /\ reqs' = st.reqs
    /\ parked' = st.parked

\* distribute(request, predicate): a peer is assigned, or the request is parked,
\* or the call fails with Cancelled after the shutdown signal
Distribute(r) ==
    /\ reqs[r].st = "new"
    /\ IF distQuit THEN DistSet([DistState EXCEPT !.reqs = [@ EXCEPT ![r] = Req("cancelled", 0)]])
       ELSE IF HasEligible(distPeers, outstanding, need[r])
       THEN DistSet(Assign(DistState, r, BestPeer(distPeers, outstanding, need[r])))
       ELSE DistSet([DistState EXCEPT !.reqs = [@ EXCEPT ![r] = Req("parked", 0)],
                                      !.parked = Append(@, r)])
    /\ UNCHANGED <<distPeers, need, distQuit>>
    /\ UNCHANGED <<inputVars, vhVars, hdrVars, finVars, svcVars, retrVars, idxVars,
                   mineVars, stopVars>>

\* the caller reports completion: the count goes down once, and the change of
\* load re-evaluates the parked requests
Release(r) ==
    /\ reqs[r].st = "assigned"
    /\ DistSet(Reevaluate([DistState EXCEPT
                              !.out = [@ EXCEPT ![reqs[r].peer] = @ - 1],
                              !.reqs = [@ EXCEPT ![r] = Req("released", reqs[r].peer)]],
                          distPeers, 1))
    /\ UNCHANGED <<distPeers, need, distQuit>>
    /\ UNCHANGED <<inputVars, vhVars, hdrVars, finVars, svcVars, retrVars, idxVars,
                   mineVars, stopVars>>

\* PeerSet.register: the change of membership re-evaluates the parked requests
Register(p) ==
    /\ p \notin distPeers
    /\ ~distQuit
    /\ distPeers' = distPeers \cup {p}
    /\ DistSet(Reevaluate(DistState, distPeers \cup {p}, 1))
    /\ UNCHANGED <<need, distQuit>>
    /\ UNCHANGED <<inputVars, vhVars, hdrVars, finVars, svcVars, retrVars, idxVars,
                   mineVars, stopVars>>

\* PeerSet.unregister: the requests in flight on the peer stay counted until their
\* callers report them
Unregister(p) ==
    /\ p \in distPeers
    /\ distPeers' = distPeers \ {p}
    /\ UNCHANGED <<outstanding, reqs, parked, need, distQuit>>
    /\ UNCHANGED <<inputVars, vhVars, hdrVars, finVars, svcVars, retrVars, idxVars,
                   mineVars, stopVars>>

\* the shutdown signal: every parked call fails with Cancelled
DistShutdown ==
    /\ ~distQuit
    /\ distQuit' = TRUE
    /\ reqs' = [r \in DOMAIN reqs |->
                   IF reqs[r].st = "parked" THEN Req("cancelled", 0) ELSE reqs[r]]
    /\ parked' = <<>>
    /\ UNCHANGED <<distPeers, outstanding, need>>
    /\ UNCHANGED <<inputVars, vhVars, hdrVars, finVars, svcVars, retrVars, idxVars,
                   mineVars, stopVars>>

DistInit ==
    /\ distPeers = {}
    /\ outstanding = [p \in DistPeerIds |-> 0]
    /\ reqs = [r \in 1..MaxReq |-> Req("new", 0)]
    /\ parked = <<>>
    /\ need \in [1..MaxReq -> {1, 2}]
    /\ distQuit = FALSE
    /\ ConsensusIdle
    /\ SvcIdle
    /\ RetrIdle
    /\ IdxIdle
    /\ MineIdle
    /\ nodeKind = "full"
    /\ StopIdle

DistNext ==
    \/ \E r \in 1..MaxReq : Distribute(r)
    \/ \E r \in 1..MaxReq : Release(r)
    \/ \E p \in DistPeerIds : Register(p)
    \/ \E p \in DistPeerIds : Unregister(p)
    \/ DistShutdown

SpecDist == DistInit /\ [][DistNext]_vars

\* ---------------------------------------------------------- RetrieveManager
\* (spec 4.3; the light client of src/unnamed/part_001 creates it at line 114)
\* One retrieval: Pending -> Sent -> {Validated, TimedOut, Rejected}
\*                 -> (Pending on retry | Done | Failed).

\* one peer more than the largest budget: a retry always finds another peer
RetrPeerIds == 1..(MaxBudget + 1)

\* what a peer of each kind replies; a silent peer never replies
ReplyOf(kind) == IF kind = "honest" THEN "value" ELSE "forged"

\* the request's validator
Validates(reply) == reply = "value"

\* Pending -> Sent: the distributor assigns a peer that is not excluded, the
\* request is sent and the deadline armed
RetrSend(p) ==
    /\ retrSt = "Pending"
    /\ p \notin excluded
    /\ retrSt' = "Sent"
    /\ retrPeer' = p
    /\ attempts' = attempts + 1
    /\ UNCHANGED <<peerKind, budget, excluded, retrValue, retrErr>>
    /\ UNCHANGED <<inputVars, vhVars, hdrVars, finVars, svcVars, distVars, idxVars,
                   mineVars, stopVars>>

\* a reply before the deadline: Validated, or Rejected and the peer excluded
RetrReply ==
    /\ retrSt = "Sent"
    /\ peerKind[retrPeer] # "silent"
    /\ IF Validates(ReplyOf(peerKind[retrPeer]))
       THEN retrSt' = "Validated" /\ UNCHANGED excluded
       ELSE retrSt' = "Rejected" /\ excluded' = excluded \cup {retrPeer}
    /\ UNCHANGED <<peerKind, budget, attempts, retrPeer, retrValue, retrErr>>
    /\ UNCHANGED <<inputVars, vhVars, hdrVars, finVars, svcVars, distVars, idxVars,
                   mineVars, stopVars>>

\* the deadline expires with no reply: TimedOut and the peer excluded
RetrTimeout ==
    /\ retrSt = "Sent"
    /\ retrSt' = "TimedOut"
    /\ excluded' = excluded \cup {retrPeer}
    /\ UNCHANGED <<peerKind, budget, attempts, retrPeer, retrValue, retrErr>>
    /\ UNCHANGED <<inputVars, vhVars, hdrVars, finVars, svcVars, distVars, idxVars,
                   mineVars, stopVars>>

\* (variant) the budget is compared one attempt late
RetrResolveOneMore ==
    /\ retrSt \in {"Validated", "TimedOut", "Rejected"}
    /\ retrPeer' = 0
    /\ IF retrSt = "Validated"
       THEN /\ retrSt' = "Done"
            /\ retrValue' = ReplyOf(peerKind[retrPeer])
            /\ UNCHANGED retrErr
       ELSE IF attempts <= budget
       THEN retrSt' = "Pending" /\ UNCHANGED <<retrValue, retrErr>>
       ELSE /\ retrSt' = "Failed"
            /\ retrErr' = "RetrievalFailed"
            /\ UNCHANGED retrValue
    /\ UNCHANGED <<peerKind, budget, attempts, excluded>>
    /\ UNCHANGED <<inputVars, vhVars, hdrVars, finVars, svcVars, distVars, idxVars,
                   mineVars, stopVars>>

\* Validated -> Done with the value; TimedOut or Rejected -> Pending while budget
\* remains, else Failed with RetrievalFailed
RetrResolve ==
    /\ retrSt \in {"Validated", "TimedOut", "Rejected"}
    /\ retrPeer' = 0
    /\ IF retrSt = "Validated"
       THEN /\ retrSt' = "Done"
            /\ retrValue' = ReplyOf(peerKind[retrPeer])
            /\ UNCHANGED retrErr
       ELSE IF attempts < budget
       THEN retrSt' = "Pending" /\ UNCHANGED <<retrValue, retrErr>>
       ELSE /\ retrSt' = "Failed"
            /\ retrErr' = "RetrievalFailed"
            /\ UNCHANGED retrValue
    /\ UNCHANGED <<peerKind, budget, attempts, excluded>>
    /\ UNCHANGED <<inputVars, vhVars, hdrVars, finVars, svcVars, distVars, idxVars,
                   mineVars, stopVars>>

RetrInit ==
    /\ peerKind \in [RetrPeerIds -> {"honest", "forger", "silent"}]
    /\ budget \in 1..MaxBudget
    /\ retrSt = "Pending"
    /\ attempts = 0
    /\ retrPeer = 0
    /\ excluded = {}
    /\ retrValue = "none"
    /\ retrErr = "nil"
    /\ ConsensusIdle
    /\ SvcIdle
    /\ DistIdle
    /\ IdxIdle
    /\ MineIdle
    /\ nodeKind = "full"
    /\ StopIdle

RetrSteps ==
    \/ \E p \in RetrPeerIds : RetrSend(p)
    \/ RetrReply
    \/ RetrTimeout
    \/ RetrResolve

RetrNext == RetrSteps

SpecRetr == RetrInit /\ [][RetrNext]_vars

\* ------------------------------------------------------------- ChainIndexer
\* (spec 4.5; the light client of src/unnamed/part_001 creates its indexers at
\* lines 107-109)
\* Blocks are numbered from 1; section i covers the blocks
\* i*SectionSize+1 .. (i+1)*SectionSize. A block carries the mark of the fork it
\* came with: 1 when first seen, one more after every reorganization at it.

\* the blocks of a section
SectionSize == 2

\* the forks a block number can see
MaxFork == 2

\* the first block of a section
SectionStart(i) == i * SectionSize + 1

\* the digest of a section: a collision-free accumulator of its blocks
SectionDigest(blocks) == blocks

Sealed(index, root) == [index |-> index, root |-> root]

\* a new block becomes canonical
IdxNewHead ==
    /\ Len(canon) < MaxHead
    /\ canon' = Append(canon, 1)
    /\ UNCHANGED <<storedSections, sealLog, progress>>
    /\ UNCHANGED <<inputVars, vhVars, hdrVars, finVars, svcVars, distVars, retrVars,
                   mineVars, stopVars>>

\* the indexer takes the next canonical block of the section in progress
IdxAccumulate ==
    /\ Len(progress) < SectionSize
    /\ SectionStart(storedSections) + Len(progress) <= Len(canon)
    /\ progress' = Append(progress, canon[SectionStart(storedSections) + Len(progress)])
    /\ UNCHANGED <<canon, storedSections, sealLog>>
    /\ UNCHANGED <<inputVars, vhVars, hdrVars, finVars, svcVars, distVars, retrVars,
                   mineVars, stopVars>>

\* (variant) the section counter is left where it was
IdxSealNoAdvance ==
    /\ Len(progress) = SectionSize
    /\ sealLog' = Append(sealLog, Sealed(storedSections, SectionDigest(progress)))
    /\ progress' = <<>>
    /\ UNCHANGED <<canon, storedSections>>
    /\ UNCHANGED <<inputVars, vhVars, hdrVars, finVars, svcVars, distVars, retrVars,
                   mineVars, stopVars>>

\* the window is fully known: its digest is computed, the section is sealed and
\* persisted, and the next section begins
IdxSeal ==
    /\ Len(progress) = SectionSize
    /\ sealLog' = Append(sealLog, Sealed(storedSections, SectionDigest(progress)))
    /\ storedSections' = storedSections + 1
    /\ progress' = <<>>
    /\ UNCHANGED canon
    /\ UNCHANGED <<inputVars, vhVars, hdrVars, finVars, svcVars, distVars, retrVars,
                   mineVars, stopVars>>

\* a reorganization at block k, below no sealed section: the chain is replaced
\* from k on; work in progress that holds a replaced block is discarded
IdxReorg(k) ==
    /\ k >= SectionStart(storedSections)
    /\ k <= Len(canon)
    /\ canon[k] < MaxFork
    /\ canon' = Append(SubSeq(canon, 1, k - 1), canon[k] + 1)
    /\ progress' = IF k < SectionStart(storedSections) + Len(progress) THEN <<>> ELSE progress
    /\ UNCHANGED <<storedSections, sealLog>>
    /\ UNCHANGED <<inputVars, vhVars, hdrVars, finVars, svcVars, distVars, retrVars,
                   mineVars, stopVars>>

IdxInit ==
    /\ canon = <<>>
    /\ storedSections = 0
    /\ sealLog = <<>>
    /\ progress = <<>>
    /\ ConsensusIdle
    /\ SvcIdle
    /\ DistIdle
    /\ RetrIdle
    /\ MineIdle
    /\ nodeKind = "full"
    /\ StopIdle

IdxNext ==
    \/ IdxNewHead
    \/ IdxAccumulate
    \/ IdxSeal
    \/ \E k \in 1..MaxHead : IdxReorg(k)

SpecIdx == IdxInit /\ [][IdxNext]_vars

\* ================================================================== claims

N == Len(headers)

\* the outcome of position k (0-based) of the batch
OutcomeAt(k) == verifyHeaderWorker(chain, fakeFail, now, headers, seals, k).err

\* C1: the k-th value sent on the results channel is the verification outcome
\* of headers[k]; what has been sent is at every moment a prefix of the
\* in-order list of outcomes, whatever the order in which the workers finish.
C1_InOrder ==
    /\ Len(errorsOut) <= N
    /\ \A k \in 1..Len(errorsOut) :
          /\ errorsOut[k].pos = k - 1
          /\ errorsOut[k].err = OutcomeAt(k - 1)

\* index 2 has completed before index 1, and result 0 is out
C1_Witness ==
    /\ N = 3
    /\ Len(errorsOut) = 1
    /\ checked[3] /\ ~checked[2]
    /\ OutcomeAt(0) # OutcomeAt(2)
    /\ OutcomeAt(0) # OutcomeAt(1)

\* all N results are out, one for each position
C2_Complete ==
    /\ callPc = "returned"
    /\ Len(errorsOut) = N
    /\ \A i \in 0..(N - 1) : Cardinality({k \in 1..Len(errorsOut) : errorsOut[k].pos = i}) = 1

\* C2: a call that is never aborted eventually has sent exactly N results, one
\* per input position, none missing and none twice (fair scheduling).
C2_AllDelivered == <>(aborted \/ C2_Complete)

C2_Witness == N >= 2 /\ ~aborted /\ C2_Complete /\ seqPc = "exit" /\ exited = workers

AllTerminated == seqPc = "exit" /\ exited = workers

\* C3: after the stop signal is raised during a call on N >= 1 headers, the
\* sequencer and every worker terminate: short of that, some goroutine can
\* always take a step (no worker stays blocked on the completion queue).
C3_StopTerminates ==
    (N >= 1 /\ aborted) => (AllTerminated \/ ENABLED VHSteps)

\* C4 as stated: once the stop signal is raised, no further result is sent and
\* no further index is handed to a worker.
C4_Original == [][aborted => (errorsOut' = errorsOut /\ in' = in)]_vars

\* C4 as amended: once the sequencer's select has taken the stop signal, no
\* further result is sent and no further index is handed to a worker.
C4_AfterSeen ==
    [][abortSeen => (errorsOut' = errorsOut /\ in' = in /\ verifying' \subseteq verifying)]_vars

\* the signal was taken with results and indices still outstanding
C4_Witness ==
    /\ abortSeen
    /\ seqPc = "exit"
    /\ N = 3
    /\ Len(errorsOut) = 1
    /\ in = 2
    /\ verifying # {}

\* C5: on the empty batch nothing is ever sent, no worker and no sequencer is
\* started, and nothing is left that could run or block.
C5_EmptyBatch ==
    (callPc = "returned" /\ N = 0) =>
        /\ errorsOut = <<>>
        /\ workers = 0
        /\ idle = 0
        /\ seqPc = "none"
        /\ ~ENABLED VHSteps

C5_Witness == callPc = "returned" /\ N = 0 /\ aborted

\* ---- the rules of a header, stated on its fields

ExtraOk(h) == h.Extra <= MaximumExtraDataSize

NotFuture(h) == h.Time <= now + allowedFutureBlockTime

AfterParent(h, p) == h.Time > p.Time

GasCapOk(h) == ~U64Lt(GasCap, h.GasLimit)

GasUsedOk(h) == ~U64Lt(h.GasLimit, h.GasUsed)

GasUsedPositive(h) == h.GasUsed # U64Zero

\* |gasLimit(h) - gasLimit(p)| < gasLimit(p) / divisor, on the numbers themselves
DeltaOk(h, p) ==
    U64Lt(U64AbsDiff(h.GasLimit, p.GasLimit), U64DivSmall(p.GasLimit, GasLimitBoundDivisor))

FloorOk(h) == ~U64Lt(h.GasLimit, U64Small(MinGasLimit))

NumberOk(h, p) == h.Number = p.Number + 1

SealOk(h) == h.Number # fakeFail

\* every rule but the gas-limit delta
RulesButDelta(h, p, seal) ==
    /\ ExtraOk(h) /\ NotFuture(h) /\ AfterParent(h, p)
    /\ GasCapOk(h) /\ GasUsedOk(h) /\ FloorOk(h)
    /\ NumberOk(h, p)
    /\ seal => SealOk(h)

AllRules(h, p, seal) == RulesButDelta(h, p, seal) /\ DeltaOk(h, p)

\* the header of the one-header operations, and the parent it is checked against
H == headers[2]

P == par

\* C6 as stated: verifyHeader(H, P, true) succeeds iff timestamp(H) >
\* timestamp(P), 0 < gasUsed(H) <= gasLimit(H) <= 2^63-1, the gas limit moves by
\* less than gasLimit(P)/divisor, number(H) = number(P)+1 and the seal is valid.
C6_Original ==
    (hop = "verifyHeader" /\ seals[2]) =>
        (hres.err = "nil" <=>
            /\ AfterParent(H, P)
            /\ GasUsedPositive(H) /\ GasUsedOk(H) /\ GasCapOk(H)
            /\ DeltaOk(H, P)
            /\ NumberOk(H, P)
            /\ SealOk(H))

\* C6 as amended: for a parent whose gas limit is within the ceiling,
\* verifyHeader(H, P, true) succeeds iff the extra-data is at most 32 bytes, the
\* timestamp is at most 15 s ahead of the clock and after the parent's,
\* gasUsed(H) <= gasLimit(H) <= 2^63-1 (gasUsed may be 0), the gas limit moves by
\* less than gasLimit(P)/divisor and is at least MinGasLimit,
\* number(H) = number(P)+1 and the seal is valid.
C6_Amended ==
    (hop = "verifyHeader" /\ seals[2] /\ GasCapOk(P)) =>
        (hres.err = "nil" <=> AllRules(H, P, TRUE))

\* a header that uses no gas is accepted
C6_Witness ==
    /\ hop = "verifyHeader" /\ seals[2] /\ GasCapOk(P)
    /\ hres.err = "nil"
    /\ ~GasUsedPositive(H)
    /\ H.GasLimit # P.GasLimit

\* the error of the first rule, in the order given, that does not hold
FirstError(rules) ==
    IF \A i \in 1..Len(rules) : rules[i].ok THEN "nil"
    ELSE rules[CHOOSE i \in 1..Len(rules) :
                   ~rules[i].ok /\ \A j \in 1..(i - 1) : rules[j].ok].err

Rule(ok, err) == [ok |-> ok, err |-> err]

\* the gas-limit delta and floor as the code decides them
DeltaAndFloorPass(h, p) ==
    /\ U64Lt(GasDiff(h, p), U64DivSmall(p.GasLimit, GasLimitBoundDivisor))
    /\ FloorOk(h)

RuleExtra(h) == Rule(ExtraOk(h), "extra-data too long")

RuleParentTime(h, p) == Rule(AfterParent(h, p), "errZeroBlockTime")

RuleFuture(h) == Rule(NotFuture(h), "ErrFutureBlock")

RulesFromGas(h, p, seal) ==
    << Rule(GasCapOk(h), "invalid gasLimit"),
       Rule(GasUsedOk(h), "invalid gasUsed"),
       Rule(DeltaAndFloorPass(h, p), "invalid gas limit"),
       Rule(NumberOk(h, p), "ErrInvalidNumber"),
       Rule(seal => SealOk(h), "errInvalidPoW") >>

\* C7 as stated: the checks run in the order extra-data, timestamp after the
\* parent's, timestamp not in the future, gas ceiling, gas used, gas-limit delta
\* and floor, number, seal; the error is that of the first violated rule.
C7_Original ==
    hop = "verifyHeader" =>
        hres.err = FirstError(<<RuleExtra(H), RuleParentTime(H, P), RuleFuture(H)>>
                              \o RulesFromGas(H, P, seals[2]))

\* C7 as amended: the order is extra-data, timestamp not in the future,
\* timestamp after the parent's, gas ceiling, gas used, gas-limit delta and
\* floor, number, seal; the error is that of the first violated rule.
C7_Amended ==
    hop = "verifyHeader" =>
        hres.err = FirstError(<<RuleExtra(H), RuleFuture(H), RuleParentTime(H, P)>>
                              \o RulesFromGas(H, P, seals[2]))

\* a header in the future and not after its parent: the future error is returned
C7_Witness ==
    /\ hop = "verifyHeader"
    /\ ExtraOk(H) /\ ~NotFuture(H) /\ ~AfterParent(H, P)
    /\ hres.err = "ErrFutureBlock"

\* ---- the batch of the end-to-end scenario

NotKnown(h) == h \notin chain

ParentInChain(h) == \E c \in chain : Hash(c) = h.ParentHash /\ c.Number = h.Number - 1

TheParent(h) == CHOOSE c \in chain : Hash(c) = h.ParentHash /\ c.Number = h.Number - 1

Linked(h, prev) == h.ParentHash = Hash(prev)

\* [h0, h1, h2], none known: h0 is valid on its chain parent, h1 builds on h0 and
\* fails the gas-limit delta only, h2 is valid on h1 or does not build on it
C8_Scenario ==
    /\ N = 3
    /\ \A k \in 1..3 : NotKnown(headers[k])
    /\ ParentInChain(headers[1])
    /\ AllRules(headers[1], TheParent(headers[1]), seals[1])
    /\ Linked(headers[2], headers[1])
    /\ RulesButDelta(headers[2], headers[1], seals[2])
    /\ ~DeltaOk(headers[2], headers[1])
    /\ Linked(headers[3], headers[2]) => AllRules(headers[3], headers[2], seals[3])

C8_Expected ==
    << "nil", "invalid gas limit",
       IF Linked(headers[3], headers[2]) THEN "nil" ELSE "ErrUnknownAncestor" >>

\* C8: in the scenario the results are [ok, rule violation, r2] in that order, r2
\* ok or unknown-ancestor: position 2 is decided by h2 and h1 alone, not by the
\* failure of position 1, whichever worker finishes first.
C8_Batch ==
    C8_Scenario =>
        \A k \in 1..Len(errorsOut) : errorsOut[k].err = C8_Expected[k]

\* all three results are out, the last one ok after a failed predecessor
C8_Witness ==
    /\ C8_Scenario
    /\ Len(errorsOut) = 3
    /\ errorsOut[2].err = "invalid gas limit"
    /\ errorsOut[3].err = "nil"
    /\ workers = 2

\* the claimed parent of the header cannot be found
C9_ParentMissing ==
    CASE hop = "VerifyHeader" -> NotKnown(H) /\ ~ParentInChain(H)
      [] hop = "worker0" -> ~ParentInChain(H)
      [] hop = "worker1" -> ~Linked(H, headers[1])
      [] OTHER -> FALSE

\* C9: VerifyHeader and the batch worker report UnknownAncestor exactly when the
\* claimed parent cannot be found (VerifyHeader: the header is not known and the
\* chain has no (ParentHash, number-1); position 0: the chain has none;
\* position i > 0: ParentHash is not the hash of headers[i-1]), and then no
\* rule check is run.
C9_UnknownAncestor ==
    hop \in {"VerifyHeader", "worker0", "worker1"} =>
        /\ hres.err = "ErrUnknownAncestor" <=> C9_ParentMissing
        /\ hres.err = "ErrUnknownAncestor" => ~hres.checked

\* an orphan that would also break a rule is reported as an orphan
C9_Witness ==
    /\ hop = "VerifyHeader"
    /\ hres.err = "ErrUnknownAncestor"
    /\ ~ExtraOk(H)
    /\ chain # {}

\* ---- Finalize

Beneficiary == headers[1].Coinbase

\* C10: Finalize credits the beneficiary with exactly one block reward, 5 (e18)
\* before the configured transition block and 3 (e18) from it on; no other
\* balance changes and the reward variables keep their values.
C10_Reward ==
    (finPc # "start" /\ config # {}) =>
        /\ \E b \in config :
              stateDB[Beneficiary] - stateDB0[Beneficiary] =
                  IF headers[1].Number < b THEN 5 ELSE 3
        /\ \A a \in Accounts \ {Beneficiary} : stateDB[a] = stateDB0[a]
        /\ frontierReward = 5
        /\ byzantiumReward = 3

\* the block at the transition itself gets the lower reward
C10_Witness ==
    /\ finPc = "assembled"
    /\ config = {headers[1].Number}
    /\ stateDB[Beneficiary] = stateDB0[Beneficiary] + 3
    /\ stateDB0[Beneficiary] > 0

\* C11: in Finalize the reward is credited before the root is taken, and the
\* root is in the header before the block is assembled: no root and no block
\* exist before the credit, and the assembled block's Root is the root of the
\* state in which the beneficiary already holds the reward.
C11_RootAfterReward ==
    /\ finPc = "start" => (stateDB = stateDB0 /\ headerRoot = <<>> /\ block = <<>>)
    /\ finPc = "rewarded" => (headerRoot = <<>> /\ block = <<>>)
    /\ finPc = "rooted" => block = <<>>
    /\ finPc \in {"rooted", "assembled"} =>
          /\ headerRoot = IntermediateRoot(stateDB)
          /\ stateDB[Beneficiary] > stateDB0[Beneficiary]
    /\ finPc = "assembled" =>
          /\ block.Root = headerRoot
          /\ block.Root # IntermediateRoot(stateDB0)

\* a block whose root holds the Frontier reward on top of an earlier balance
C11_Witness ==
    /\ finPc = "assembled"
    /\ block.Root = IntermediateRoot([stateDB0 EXCEPT ![Beneficiary] = @ + 5])
    /\ stateDB0[Beneficiary] = 4

\* ---- the worker pool

MinOf(a, b) == IF a < b THEN a ELSE b

\* C12: a call on N >= 1 headers starts exactly min(GOMAXPROCS, N) workers;
\* every one of them is at one place, so at no moment are more than that many
\* headers under verification.
C12_WorkerPool ==
    (callPc = "returned" /\ N >= 1) =>
        /\ workers = MinOf(procs, N)
        /\ idle + Cardinality(verifying) + Cardinality(sending) + exited = workers
        /\ Cardinality(verifying \cup sending) <= MinOf(procs, N)

\* the pool is full: two verifications at once in a batch of three
C12_Witness ==
    /\ N = 3
    /\ procs = 2
    /\ Cardinality(verifying) = 2
    /\ idle = 0

\* ---- the full-node service

\* C13: creating the service in LightSync mode, or in a mode that is not valid,
\* fails with an error, and the chain database is never opened and no component
\* (engine, bloom indexer, blockchain, tx pool, protocol manager, miner) is ever
\* created.
C13_ModeRejected ==
    (syncMode = 2 \/ syncMode < 0 \/ syncMode > 2) =>
        /\ newPc \in {"start", "failed"}
        /\ newPc = "failed" => newErr \in {"light sync mode", "invalid sync mode"}
        /\ ~dbOpened
        /\ created = {}
        /\ started = {}

\* New has failed in light sync mode, with every later step able to succeed
C13_Witness ==
    /\ syncMode = 2
    /\ newPc = "failed"
    /\ newErr = "light sync mode"
    /\ envErr = "none"

\* C14: Start with light serving enabled and LightPeers >= MaxPeers returns an
\* error and starts neither the protocol manager nor the light server; otherwise
\* it starts the protocol manager with MaxPeers - LightPeers peers, at least 1,
\* when light serving is enabled and with MaxPeers when it is not.
C14_StartPeers ==
    startPc = "returned" =>
        IF lightServ > 0 /\ lightPeers >= maxPeers
        THEN /\ startErr # "nil"
             /\ "protocolManager" \notin started
             /\ "lesServer" \notin started
             /\ pmMaxPeers = {}
        ELSE /\ startErr = "nil"
             /\ "protocolManager" \in started
             /\ IF lightServ > 0
                THEN pmMaxPeers = {maxPeers - lightPeers} /\ \A n \in pmMaxPeers : n >= 1
                ELSE pmMaxPeers = {maxPeers}

\* as many light peers as peers, with a light server registered: nothing starts
C14_Witness ==
    /\ startPc = "returned"
    /\ lightServ > 0
    /\ lightPeers = maxPeers
    /\ maxPeers > 0
    /\ lesServer
    /\ startErr # "nil"

\* ---- the light client's request distributor

InFlight(p) == {r \in DOMAIN reqs : reqs[r].st = "assigned" /\ reqs[r].peer = p}

\* C15: through every sequence of distribute and release (and of peers coming and
\* going) a peer's outstanding count stays within 0..ceiling and counts exactly
\* the requests in flight on it, so no request is ever assigned to a peer at
\* its ceiling; and a peer is eligible again as soon as a request on it is
\* released: no request stays parked while a registered peer with a high enough
\* head is below its ceiling.
C15_Ceiling ==
    /\ \A p \in DistPeerIds :
          /\ outstanding[p] >= 0
          /\ outstanding[p] <= 2
          /\ outstanding[p] = Cardinality(InFlight(p))
    /\ \A r \in DOMAIN reqs :
          reqs[r].st = "parked" =>
              ~\E p \in distPeers : p >= need[r] /\ outstanding[p] < 2

\* a request was released and the peer is back at its ceiling: the parked
\* request took the freed place
C15_Witness ==
    /\ \E r \in DOMAIN reqs : reqs[r].st = "released" /\ reqs[r].peer = 2
    /\ Cardinality(InFlight(2)) = 2
    /\ outstanding[2] = 2
    /\ \A r \in DOMAIN reqs : need[r] = 2
    /\ parked = <<>>

\* ---- the light client's retrieve manager

\* C16: a retrieval with budget K is attempted at most K times; it is Failed,
\* with RetrievalFailed and no value, only after K attempts that all failed
\* validation or timed out; it is Done, with the validated value, after some
\* attempt j <= K whose predecessors all failed; and in either terminal state
\* no further attempt or step is possible.
C16_Budget ==
    /\ attempts <= budget
    /\ Cardinality(excluded) <= attempts
    /\ retrSt \in {"TimedOut", "Rejected"} => Cardinality(excluded) = attempts
    /\ retrSt = "Failed" =>
          /\ attempts = budget
          /\ Cardinality(excluded) = budget
          /\ retrErr = "RetrievalFailed"
          /\ retrValue = "none"
          /\ ~ENABLED RetrSteps
    /\ retrSt = "Done" =>
          /\ attempts >= 1
          /\ Cardinality(excluded) = attempts - 1
          /\ retrErr = "nil"
          /\ retrValue = "value"
          /\ ~ENABLED RetrSteps
    /\ retrSt \notin {"Failed", "Done"} => (retrErr = "nil" /\ retrValue = "none")

\* the budget of two is spent on two bad peers while an honest one was left
C16_Witness ==
    /\ retrSt = "Failed"
    /\ budget = 2
    /\ attempts = 2
    /\ \E p \in DOMAIN peerKind : p \notin excluded /\ peerKind[p] = "honest"
    /\ \E p \in excluded : peerKind[p] = "forger"

\* ---- the chain indexers

\* the canonical blocks of section i
CanonSection(i) == SubSeq(canon, 2 * i + 1, 2 * i + 2)

\* the sections are sealed in the order 0, 1, 2, ..., each once, each from the
\* canonical blocks of its range, and the work in progress is canonical too
C17_State ==
    /\ \A k \in 1..Len(sealLog) :
          /\ sealLog[k].index = k - 1
          /\ 2 * k <= Len(canon)
          /\ sealLog[k].root = CanonSection(k - 1)
    /\ \A j \in 1..Len(progress) :
          /\ 2 * Len(sealLog) + j <= Len(canon)
          /\ progress[j] = canon[2 * Len(sealLog) + j]

\* a step leaves every sealed section as it was and seals at most one more
C17_Step ==
    /\ Len(sealLog') \in {Len(sealLog), Len(sealLog) + 1}
    /\ \A k \in 1..Len(sealLog) : sealLog'[k] = sealLog[k]

\* C17: an indexer seals its sections strictly in increasing order of index,
\* never section i+1 before section i and none twice; a reorganization below an
\* unsealed section restarts the work in progress from the new canonical blocks
\* and leaves every sealed section unchanged.
C17_SealOrder == []C17_State /\ [][C17_Step]_vars

\* two sections are sealed, the second from a chain that was reorganized at its
\* first block
C17_Witness ==
    /\ Len(sealLog) = 2
    /\ sealLog[1].root = <<1, 1>>
    /\ sealLog[2].root = <<2, 1>>
    /\ sealLog[2].index = 1

\* ---- the gas-limit delta in 64-bit arithmetic

\* verifyHeader got past the gas-limit delta and floor check
PassedDeltaCheck == hres.err \in {"nil", "ErrInvalidNumber", "errInvalidPoW"}

\* C18: for every parent and header gas limit of the unsigned 64-bit range,
\* verifyHeader passes the gas-limit delta check only if
\* |gasLimit(H) - gasLimit(P)| < gasLimit(P)/GasLimitBoundDivisor, on the numbers
\* themselves, and gasLimit(H) >= MinGasLimit: the signed arithmetic lets no
\* header with a larger difference through.
C18_DeltaSound ==
    (hop = "verifyHeader" /\ PassedDeltaCheck) => (DeltaOk(H, P) /\ FloorOk(H))

\* ---- the seal

\* every check of verifyHeader ahead of the seal passes, as the code decides it
ChecksBeforeSeal(h, p) ==
    /\ ExtraOk(h) /\ NotFuture(h) /\ AfterParent(h, p)
    /\ GasCapOk(h) /\ GasUsedOk(h) /\ DeltaAndFloorPass(h, p)
    /\ NumberOk(h, p)

\* C19: the seal is checked last and only on request. Without checkSeal the
\* outcome is that of the other checks alone, also for the header whose number
\* is the fail number; with checkSeal the seal error is returned exactly for a
\* header that passes every other check and whose number is the engine's fail
\* number, and success exactly when every other check passes and it is not.
C19_SealLast ==
    hop = "verifyHeader" =>
        /\ ~seals[2] =>
              /\ hres.err # "errInvalidPoW"
              /\ hres.err = "nil" <=> ChecksBeforeSeal(H, P)
        /\ seals[2] =>
              /\ hres.err = "errInvalidPoW" <=> (ChecksBeforeSeal(H, P) /\ H.Number = fakeFail)
              /\ hres.err = "nil" <=> (ChecksBeforeSeal(H, P) /\ H.Number # fakeFail)

\* the header with the fail number is accepted when the seal is not asked for
C19_Witness ==
    /\ hop = "verifyHeader"
    /\ ~seals[2]
    /\ H.Number = fakeFail
    /\ hres.err = "nil"

\* ---- the shared result slots

\* C20: result i is emitted only once the completion signals of all of 0..i
\* have been received, and a slot is read only after its worker wrote it: a
\* received signal means the slot is written and its worker is past the write,
\* and no emitted value is that of an unwritten slot.
C20_SlotWritten ==
    /\ \A k \in 1..Len(errorsOut) :
          /\ \A i \in 0..errorsOut[k].pos : checked[i + 1]
          /\ errorsOut[k].err # "unset"
          /\ errorsOut[k].err = errors[errorsOut[k].pos + 1]
    /\ \A i \in 1..Len(checked) :
          checked[i] =>
              /\ errors[i] # "unset"
              /\ (i - 1) \notin (verifying \cup sending)

\* two results are out while the third header is still under verification
C20_Witness ==
    /\ N = 3
    /\ Len(errorsOut) = 2
    /\ verifying = {2}
    /\ errors[3] = "unset"

\* ---- the dispatch of the indices

\* the indices whose completion signal waits in done
InDone == {done[k] : k \in 1..Len(done)}

\* the indices whose completion signal the sequencer has received
Received == {i \in 0..(Len(checked) - 1) : checked[i + 1]}

\* the indices handed out so far are 0..in-1, each in exactly one place: with a
\* worker, in the completion queue, or received; a call that ran to its end
\* without abort has handed out every index
C21_State ==
    /\ in >= 0 /\ in <= N
    /\ verifying \cup sending \cup InDone \cup Received = 0..(in - 1)
    /\ Cardinality(verifying) + Cardinality(sending) + Len(done) + Cardinality(Received) = in
    /\ (seqPc = "exit" /\ ~abortSeen) => (in = N /\ Received = 0..(N - 1))

\* a step hands out at most one index, the next one
C21_Step ==
    /\ in' \in {in, in + 1}
    /\ (verifying' \ verifying) \subseteq {in}
    /\ in' = in + 1 => in \in verifying'

\* C21: every index 0..N-1 is handed to a worker at most once, and exactly once
\* in a call that ends without abort; the indices are handed out in increasing
\* order and none outside 0..N-1 is dispatched.
C21_Dispatch == []C21_State /\ [][C21_Step]_vars

\* a call on three headers ran to its end with two workers, unaborted
C21_Witness ==
    /\ N = 3
    /\ in = 3
    /\ workers = 2
    /\ seqPc = "exit"
    /\ ~aborted
    /\ Received = {0, 1, 2}

\* ---- the results channel

\* every header is verified, every result is out, and every goroutine of the
\* call has returned
C22_Finished ==
    /\ callPc = "returned"
    /\ Len(errorsOut) = N
    /\ \A i \in 1..N : errors[i] # "unset"
    /\ verifying = {} /\ sending = {} /\ done = <<>>
    /\ exited = workers
    /\ N >= 1 => seqPc = "exit"

\* C22: in a call that is never aborted the sequencer never blocks on emitting
\* a result, although nobody reads the results channel; all N headers are
\* verified, and after the N-th result the sequencer and every worker have
\* terminated (fair scheduling).
C22_NoReader == [](seqPc # "blocked") /\ <>(aborted \/ C22_Finished)

\* three results sit unread in the channel and everything has terminated
C22_Witness ==
    /\ N = 3
    /\ ~aborted
    /\ C22_Finished
    /\ Len(errorsOut) = 3
    /\ workers = 2

\* ---- one header, alone or as a batch

\* C23: for every chain and header, also a header the chain already knows,
\* VerifyHeaders on the batch [h] delivers the outcome VerifyHeader returns for
\* h, and a known header is a success.
C23_SingleBatch ==
    (N = 1 /\ Len(errorsOut) = 1) =>
        /\ errorsOut[1].err = VerifyHeader(chain, fakeFail, now, headers[1], seals[1]).err
        /\ headers[1] \in chain => errorsOut[1].err = "nil"

\* ---- Prepare

\* C24: Prepare returns ErrUnknownAncestor exactly when the chain has no header
\* (ParentHash, number-1), and succeeds otherwise, whether or not the header
\* would pass verification; the call changes neither the header nor the chain.
C24_State ==
    hop = "Prepare" =>
        /\ hres.err \in {"nil", "ErrUnknownAncestor"}
        /\ hres.err = "ErrUnknownAncestor" <=> ~ParentInChain(H)

C24_Step == hop' = "Prepare" => (headers' = headers /\ chain' = chain)

C24_Prepare == []C24_State /\ [][C24_Step]_vars

\* Prepare succeeds on a header that breaks a rule of verifyHeader
C24_Witness ==
    /\ hop = "Prepare"
    /\ hres.err = "nil"
    /\ ParentInChain(H)
    /\ ~ExtraOk(H)

\* ---- the etherbase of the full node

NoSetEtherbase == \A t \in SetCallers : setPc[t] = "idle"

\* what the claim says a Goolase call returns and stores, and that an etherbase
\* once set is replaced by SetEtherbase only
C25_Step ==
    /\ \A c \in GooCallers :
          /\ (gPc[c] = "read" /\ gPc'[c] = "returned") =>
                /\ etherbase' = etherbase
                /\ IF gSeen[c] # 0
                   THEN gRet' = [addr |-> gSeen[c], err |-> "nil"]
                   ELSE gRet'.err # "nil" /\ gRet'.addr = 0
          /\ (gPc[c] = "read" /\ gPc'[c] = "found") =>
                /\ gSeen[c] = 0
                /\ gAcct'[c] = wallets[1][1]
                /\ etherbase' = etherbase
          /\ (gPc[c] = "found" /\ gPc'[c] = "returned") =>
                /\ gRet' = [addr |-> gAcct[c], err |-> "nil"]
                /\ etherbase' = gAcct[c]
    /\ wallets' # wallets => etherbase' = etherbase
    /\ (etherbase # 0 /\ \A t \in SetCallers : setPc'[t] = "idle") =>
          etherbase' = etherbase

\* C25: Goolase returns the configured etherbase when it is non-zero; otherwise
\* it returns the first account of the first wallet and stores it as the
\* etherbase, so that (no SetEtherbase intervening) every later call returns that
\* address whatever the wallets become; when the first wallet has no first account
\* it returns an error and the zero address and leaves the etherbase as it was.
C25_Goolase == [][C25_Step]_vars

\* C26: once every concurrent SetEtherbase call has returned (and no Goolase call
\* was made), the etherbase of the service is the one last given to the miner.
C26_SetEtherbase ==
    ((\A c \in GooCallers : gPc[c] = "idle") /\ \A t \in SetCallers : setPc[t] = "done") =>
        etherbase = minerEtherbase

C27_State ==
    /\ smPc = "failed" =>
          /\ smErr \in {"etherbase missing", "signer missing"}
          /\ minerSpawned = {}
          /\ minerStarted = {}
          /\ acceptTxs = 0
    /\ smPc = "returned" =>
          /\ smErr = "nil"
          /\ smEb.err = "nil"
          /\ minerSpawned = {smEb.addr}
    /\ (minerSpawned # {} \/ minerStarted # {}) =>
          /\ smPc = "returned"
          /\ local => acceptTxs = 1
    /\ ~local => acceptTxs = 0

C27_Step ==
    /\ (smPc = "goolase" /\ smPc' = "resolved") =>
          (smEb'.err # "nil" <=>
              /\ gPc["StartMining"] = "read"
              /\ gSeen["StartMining"] = 0
              /\ FirstAccount(wallets) = {})
    /\ (smPc = "resolved" /\ smPc' # "resolved") =>
          /\ smPc' = "failed" <=>
                 (smEb.err # "nil" \/ (engineClique /\ ~Find(wallets, smEb.addr)))
          /\ smPc' = "failed" => acceptTxs' = 0 /\ minerSpawned' = {}

\* C27: StartMining returns an error, with no miner started and acceptTxs left at
\* 0, when Goolase resolves no etherbase or when the engine is clique and no local
\* wallet holds the etherbase; the miner is spawned only by a call that succeeds,
\* and with local = true acceptTxs is 1 from before the miner is spawned.
C27_StartMining == []C27_State /\ [][C27_Step]_vars

\* a local clique miner has begun
C27_Witness ==
    /\ smPc = "returned"
    /\ local
    /\ engineClique
    /\ acceptTxs = 1
    /\ minerStarted = {smEb.addr}

\* ---- stopping the services

\* the components that use the chain database
DbUsers ==
    IF nodeKind = "full"
    THEN {"bloomIndexer", "blockchain", "protocolManager", "txPool", "miner"}
    ELSE {"bloomIndexer", "chtIndexer", "bloomTrieIndexer", "blockchain",
          "protocolManager", "txPool"}

StoppedBefore(i) == {stopLog[j] : j \in 1..(i - 1)}

StopReturned ==
    stopPc > Len(IF nodeKind = "full" THEN FullStopOrder ELSE LightStopOrder)

\* C28: in FullGoola.Stop and in LightGoola.Stop the chain database is closed only
\* after every component using it (the indexers, the blockchain, the protocol
\* manager, the tx pool and, in the full node, the miner) has been stopped, and
\* the shutdown channel is closed last, after the database.
C28_StopOrder ==
    /\ \A i \in 1..Len(stopLog) :
          /\ stopLog[i] = "chainDb" => DbUsers \subseteq StoppedBefore(i)
          /\ stopLog[i] = "shutdownChan" =>
                 /\ "chainDb" \in StoppedBefore(i)
                 /\ i = Len(stopLog)
    /\ StopReturned =>
          /\ Len(stopLog) > 0
          /\ stopLog[Len(stopLog)] = "shutdownChan"

\* a full node with a light server has been stopped
C28_Witness ==
    /\ nodeKind = "full"
    /\ lesServer
    /\ StopReturned
    /\ "miner" \in StoppedBefore(Len(stopLog))

====
